---- MODULE Spec2Model ----
(***************************************************************************)
(* Strategy execution engine of the Binance futures order bot:             *)
(*   TWAP scheduler   (src/src/advanced/twap.py)                           *)
(*   Grid manager     (src/src/advanced/grid_orders.py)                    *)
(*   OCO coordinator  (src/src/advanced/oco.py)                            *)
(* Quantities are counted in units of Config.MIN_QUANTITY (0.001), and the *)
(* request quantities are multiples of the chunk counts, so that           *)
(* total_quantity / num_chunks is exact.  Run records are heap objects      *)
(* (dicts) named by a slot; the registries map run ids to slots, workers    *)
(* hold the slot they read from the registry.                               *)
(***************************************************************************)
EXTENDS Integers, Sequences, FiniteSets, TLC

\* ------------------------------------------------------------------ bounds
MaxClock == 1

\* ------------------------------------------------- configuration constants
MIN_QUANTITY == 1
MAX_QUANTITY == 1000000

VARIABLES
    now,                  \* int(time.time()), the clock second
    active_twap_orders,   \* TWAPOrderManager.active_twap_orders : id -> run object
    twap_stop_flags,      \* TWAPOrderManager.stop_flags         : id -> bool
    twap_infos,           \* the twap_info dicts, by slot
    twap_threads,         \* the _execute_twap threads, by slot
    twap_ret,             \* outcome of the last TWAPOrderManager call
    bot_logger,           \* the logger collaborator bound to src.logger.bot_logger
    active_grids,         \* GridOrderManager.active_grids : id -> run object
    grid_stop_flags,      \* GridOrderManager.stop_flags   : id -> bool
    grid_infos,           \* the grid_info dicts, by slot
    grid_place,           \* the place_grid_orders calls in progress, by slot
    grid_threads,         \* the _monitor_grid threads, by slot
    grid_cancel,          \* the cancel_all_grid_orders call in progress
    grid_ret,             \* outcome of the last GridOrderManager call
    oco                   \* the place_oco_order call in progress, or the last one

twap_vars == <<active_twap_orders, twap_stop_flags, twap_infos, twap_threads, twap_ret>>

grid_vars == <<bot_logger, active_grids, grid_stop_flags, grid_infos, grid_place,
               grid_threads, grid_cancel, grid_ret>>

vars == <<now, twap_vars, grid_vars, oco>>

\* ---------------------------------------------------------------- helpers
\* dict.get(key, default)
DictGet(d, k, default) == IF k \in DOMAIN d THEN d[k] ELSE default

\* d[k] = v
DictSet(d, k, v) == (k :> v) @@ d

NoRet == [op |-> "none", outcome |-> "none", client_calls |-> <<>>]

\* ------------------------------------------------------------- validator
\* str.upper().strip()
Normalize(s) ==
    CASE s = "btcusdt " -> "BTCUSDT"
      [] s = "sell"     -> "SELL"
      [] s = "buy"      -> "BUY"
      [] OTHER          -> s

ValidSymbols == {"BTCUSDT"}

validate_symbol(symbol) == Normalize(symbol) \in ValidSymbols

VALID_SIDES == {"BUY", "SELL"}

validate_side(side) == Normalize(side) \in VALID_SIDES

validate_quantity(quantity) ==
    /\ quantity > 0
    /\ quantity >= MIN_QUANTITY
    /\ quantity <= MAX_QUANTITY

\* None is modelled as 0 for prices: validate_price rejects both
validate_price(price) == price > 0

\* =================================================================== TWAP
TwapSlots == {"t1"}

\* the run records a caller can create in the specification of the callers'
\* operations: two TWAP runs, so that two starts can fall in one clock second
TwapCallSlots == {"t1", "t2"}

\* the requests tried: a well-formed one, its accepted variants, and one
\* malformed variant per validation rule
TwapBase ==
    [symbol |-> "BTCUSDT", side |-> "BUY", total_quantity |-> 6, num_chunks |-> 2,
     interval_seconds |-> 10, price_limit |-> 0]

\* price_limit 0 stands for None (both are falsy in the gate)
TwapAccepted ==
    {[TwapBase EXCEPT !.side = s, !.num_chunks = n, !.price_limit = p] :
        s \in {"BUY", "sell"}, n \in {2, 3}, p \in {0, 100}}
    \cup {[TwapBase EXCEPT !.symbol = "btcusdt "]}

TwapMalformed ==
    {[TwapBase EXCEPT !.symbol = "BTC"],
     [TwapBase EXCEPT !.side = "HOLD"],
     [TwapBase EXCEPT !.total_quantity = 0],
     [TwapBase EXCEPT !.total_quantity = 1],
     [TwapBase EXCEPT !.total_quantity = 1000002],
     [TwapBase EXCEPT !.num_chunks = 1],
     [TwapBase EXCEPT !.num_chunks = 101],
     [TwapBase EXCEPT !.interval_seconds = 5]}

TwapRequests == TwapAccepted \cup TwapMalformed

TickerPrices == {99, 100, 101}
FillPrices == {100, 102}

TwapId(symbol, ts) == [symbol |-> symbol, ts |-> ts]

TwapIds == {TwapId(s, t) : s \in ValidSymbols, t \in 0..MaxClock}

validate_twap_order(symbol, side, total_quantity, num_chunks, interval_seconds) ==
    /\ validate_symbol(symbol)
    /\ validate_side(side)
    /\ validate_quantity(total_quantity)
    /\ ~(num_chunks < 2)
    /\ ~(num_chunks > 100)
    /\ ~(interval_seconds < 10)
    /\ ~((total_quantity \div num_chunks) < MIN_QUANTITY)

\* Responses of the exchange to an accepted MARKET order of `qty`
MarketResponses(qty) ==
    {[executedQty |-> qty, fills |-> <<[qty |-> qty, price |-> p]>>, status |-> "FILLED"]
        : p \in FillPrices}
    \cup
    {[executedQty |-> qty \div 2, fills |-> <<[qty |-> qty \div 2, price |-> p]>>,
      status |-> "PARTIALLY_FILLED"] : p \in FillPrices}
    \cup
    {[executedQty |-> 0, fills |-> <<>>, status |-> "NEW"]}

RECURSIVE FillsValue(_)
FillsValue(fills) ==
    IF fills = <<>> THEN 0
    ELSE Head(fills).qty * Head(fills).price + FillsValue(Tail(fills))

NewTwapInfo(twap_id, symbol, side, total_quantity, num_chunks, interval_seconds, price_limit, randomize) ==
    [twap_id           |-> twap_id,
     symbol            |-> symbol,
     side              |-> side,
     total_quantity    |-> total_quantity,
     chunk_size        |-> total_quantity \div num_chunks,
     num_chunks        |-> num_chunks,
     interval_seconds  |-> interval_seconds,
     price_limit       |-> price_limit,
     randomize         |-> randomize,
     executed_chunks   |-> 0,
     executed_quantity |-> 0,
     total_value       |-> 0,
     orders            |-> <<>>,
     status            |-> "ACTIVE",
     has_end_time      |-> FALSE,
     has_error         |-> FALSE]

NewTwapThread(twap_id) ==
    [twap_id       |-> twap_id,
     info          |-> "unbound",
     pc            |-> "start",
     chunk_num     |-> 0,
     chunk_size    |-> 0,
     calls         |-> <<>>,
     waits         |-> 0,
     observed_stop |-> FALSE]

\* place_twap_order rejected by _validate_twap_order: ValueError, nothing else
place_twap_order_invalid ==
    \E req \in TwapRequests :
        /\ \E free \in TwapSlots : free \notin DOMAIN twap_infos
        /\ ~validate_twap_order(Normalize(req.symbol), Normalize(req.side),
                                req.total_quantity, req.num_chunks, req.interval_seconds)
        /\ twap_ret' = [op |-> "place_twap_order", outcome |-> "ValueError",
                        client_calls |-> <<>>]
        /\ UNCHANGED <<oco, grid_vars, now, active_twap_orders, twap_stop_flags, twap_infos, twap_threads>>

\* place_twap_order whose connectivity check fails: ConnectionError
place_twap_order_unreachable ==
    \E req \in TwapRequests :
        /\ \E free \in TwapSlots : free \notin DOMAIN twap_infos
        /\ validate_twap_order(Normalize(req.symbol), Normalize(req.side),
                               req.total_quantity, req.num_chunks, req.interval_seconds)
        /\ twap_ret' = [op |-> "place_twap_order", outcome |-> "ConnectionError",
                        client_calls |-> <<"test_connectivity">>]
        /\ UNCHANGED <<oco, grid_vars, now, active_twap_orders, twap_stop_flags, twap_infos, twap_threads>>

\* place_twap_order past validation and connectivity: the run is registered,
\* the stop flag cleared, the summary printed and the worker thread started.
place_twap_order(r) ==
    \E req \in TwapRequests, display_raises \in BOOLEAN :
        LET sym == Normalize(req.symbol)
            sd == Normalize(req.side)
            twap_id == TwapId(sym, now)
        IN  /\ r \notin DOMAIN twap_infos
            /\ validate_twap_order(sym, sd, req.total_quantity, req.num_chunks,
                                   req.interval_seconds)
            /\ twap_infos' = DictSet(twap_infos, r,
                   NewTwapInfo(twap_id, sym, sd, req.total_quantity, req.num_chunks,
                               req.interval_seconds, req.price_limit, TRUE))
            /\ active_twap_orders' = DictSet(active_twap_orders, twap_id, r)
            /\ twap_stop_flags' = DictSet(twap_stop_flags, twap_id, FALSE)
            /\ IF display_raises
               THEN /\ twap_threads' = twap_threads
                    /\ twap_ret' = [op |-> "place_twap_order", outcome |-> "OSError",
                                    client_calls |-> <<"test_connectivity", "get_symbol_price">>]
               ELSE /\ twap_threads' = DictSet(twap_threads, r, NewTwapThread(twap_id))
                    /\ twap_ret' = [op |-> "place_twap_order", outcome |-> "returned",
                                    client_calls |-> <<"test_connectivity", "get_symbol_price">>]
            /\ UNCHANGED <<oco, grid_vars, now>>

\* _execute_twap, line 184: twap_info = self.active_twap_orders[twap_id]
execute_twap_start(t) ==
    /\ t \in DOMAIN twap_threads
    /\ twap_threads[t].pc = "start"
    /\ twap_threads' = [twap_threads EXCEPT
           ![t].info = active_twap_orders[twap_threads[t].twap_id],
           ![t].pc = "loop"]
    /\ UNCHANGED <<oco, grid_vars, now, active_twap_orders, twap_stop_flags, twap_infos, twap_ret>>

\* the stop-flag check of one loop iteration: break when the flag is set
StopObserved(t) == DictGet(twap_stop_flags, twap_threads[t].twap_id, FALSE)

\* mutant of PcAfterStopSeen: the stop is noticed but the loop is not left
PcAfterStopSeen_NoBreak(info) == IF info.price_limit # 0 THEN "price" ELSE "order"

\* where the worker goes once it has seen the stop flag set: the
\* `break` of line 191 leaves the loop
PcAfterStopSeen(info) == "complete"

\* mutant of ClientAvailable: one exchange call at a time, the others wait
ClientAvailable_OneCallAtATime(t) ==
    \A u \in DOMAIN twap_threads \ {t} : twap_threads[u].pc \notin {"price", "order"}

\* Whether thread t may go on to its next exchange call.  Neither the managers
\* nor BinanceClient._make_request take a lock, so a call is started whatever
\* calls of other threads are in progress.
ClientAvailable(t) == TRUE

\* mutant of LoopExhausted: the loop runs once more
LoopExhausted_OneMore(chunk_num, num_chunks) == chunk_num > num_chunks

\* for chunk_num in range(num_chunks) (line 187): the loop is over when
\* chunk_num has gone through 0 .. num_chunks - 1
LoopExhausted(chunk_num, num_chunks) == chunk_num >= num_chunks

\* _execute_twap, lines 187-199: loop head, stop check, chunk size
execute_twap_loop(t) ==
    /\ t \in DOMAIN twap_threads
    /\ twap_threads[t].pc = "loop"
    /\ ClientAvailable(t)
    /\ LET th == twap_threads[t]
           info == twap_infos[th.info]
       IN  IF LoopExhausted(th.chunk_num, info.num_chunks)
           THEN twap_threads' = [twap_threads EXCEPT ![t].pc = "complete"]
           ELSE IF StopObserved(t)
           THEN twap_threads' = [twap_threads EXCEPT ![t].pc = PcAfterStopSeen(info),
                                                     ![t].observed_stop = TRUE]
           ELSE twap_threads' = [twap_threads EXCEPT
                    ![t].chunk_size =
                        IF th.chunk_num = info.num_chunks - 1
                        THEN info.total_quantity - info.executed_quantity
                        ELSE info.chunk_size,
                    ![t].pc = IF info.price_limit # 0 THEN "price" ELSE "order"]
    /\ UNCHANGED <<oco, grid_vars, now, active_twap_orders, twap_stop_flags, twap_infos, twap_ret>>

\* mutant of PriceGateSkips: a price equal to the limit is skipped too
PriceGateSkips_AtLimit(side, current_price, price_limit) ==
    \/ (side = "BUY" /\ current_price >= price_limit)
    \/ (side = "SELL" /\ current_price <= price_limit)

\* the price-limit gate of _execute_chunk
PriceGateSkips(side, current_price, price_limit) ==
    \/ (side = "BUY" /\ current_price > price_limit)
    \/ (side = "SELL" /\ current_price < price_limit)

\* _execute_chunk, lines 252-259: price fetch and gate
execute_chunk_price(t) ==
    /\ t \in DOMAIN twap_threads
    /\ twap_threads[t].pc = "price"
    /\ LET th == twap_threads[t]
           info == twap_infos[th.info]
       IN  \/ \* get_symbol_price raises: re-raised, caught at line 223
              twap_threads' = [twap_threads EXCEPT
                  ![t].calls = Append(@, [method |-> "get_symbol_price",
                                          chunk |-> th.chunk_num, quantity |-> 0,
                                          price |-> 0, raised |-> TRUE]),
                  ![t].pc = "wait"]
           \/ \E current_price \in TickerPrices :
                  twap_threads' = [twap_threads EXCEPT
                      ![t].calls = Append(@, [method |-> "get_symbol_price",
                                              chunk |-> th.chunk_num, quantity |-> 0,
                                              price |-> current_price, raised |-> FALSE]),
                      ![t].pc = IF PriceGateSkips(info.side, current_price, info.price_limit)
                                THEN "wait" ELSE "order"]
    /\ UNCHANGED <<oco, grid_vars, now, active_twap_orders, twap_stop_flags, twap_infos, twap_ret>>

\* mutant of ChunkFailureRecord: a chunk failure fails the run
ChunkFailureRecord_FailsRun(info) == [info EXCEPT !.status = "FAILED"]

\* what _execute_twap records for a chunk whose submission raised (lines 223-225)
ChunkFailureRecord(info) == info

\* mutant of ChunkSuccessRecord: the value of the fills is not accumulated
ChunkSuccessRecord_NoValue(info, chunk_result, chunk_size) ==
    [info EXCEPT
        !.executed_chunks = @ + 1,
        !.executed_quantity = @ + chunk_result.executedQty,
        !.orders = Append(@, chunk_result)]

\* mutant of ChunkSuccessRecord: the result is counted but not kept
ChunkSuccessRecord_NoAppend(info, chunk_result, chunk_size) ==
    [info EXCEPT
        !.executed_chunks = @ + 1,
        !.executed_quantity = @ + chunk_result.executedQty,
        !.total_value = IF chunk_result.fills # <<>>
                        THEN @ + FillsValue(chunk_result.fills) ELSE @]

\* what _execute_twap records for a chunk that returned a result (lines 205-218)
ChunkSuccessRecord(info, chunk_result, chunk_size) ==
    [info EXCEPT
        !.executed_chunks = @ + 1,
        !.executed_quantity = @ + chunk_result.executedQty,
        !.total_value = IF chunk_result.fills # <<>>
                        THEN @ + FillsValue(chunk_result.fills) ELSE @,
        !.orders = Append(@, chunk_result)]

\* _execute_chunk, lines 262-272, and _execute_twap, lines 203-225
execute_chunk_order(t) ==
    /\ t \in DOMAIN twap_threads
    /\ twap_threads[t].pc = "order"
    /\ LET th == twap_threads[t]
           info == twap_infos[th.info]
       IN  \/ \* place_order raises
              /\ twap_threads' = [twap_threads EXCEPT
                     ![t].calls = Append(@, [method |-> "place_order",
                                             chunk |-> th.chunk_num,
                                             quantity |-> th.chunk_size,
                                             price |-> 0, raised |-> TRUE]),
                     ![t].pc = "wait"]
              /\ twap_infos' = [twap_infos EXCEPT ![th.info] = ChunkFailureRecord(info)]
           \/ \E chunk_result \in MarketResponses(th.chunk_size) :
              /\ twap_threads' = [twap_threads EXCEPT
                     ![t].calls = Append(@, [method |-> "place_order",
                                             chunk |-> th.chunk_num,
                                             quantity |-> th.chunk_size,
                                             price |-> 0, raised |-> FALSE]),
                     ![t].pc = "wait"]
              /\ twap_infos' = [twap_infos EXCEPT
                     ![th.info] = ChunkSuccessRecord(info, chunk_result, th.chunk_size)]
    /\ UNCHANGED <<oco, grid_vars, now, active_twap_orders, twap_stop_flags, twap_ret>>

\* _execute_twap, lines 227-230: the wait between chunks, then the next index
execute_twap_wait(t) ==
    /\ t \in DOMAIN twap_threads
    /\ twap_threads[t].pc = "wait"
    /\ LET th == twap_threads[t]
           info == twap_infos[th.info]
       IN  twap_threads' = [twap_threads EXCEPT
               ![t].waits = IF th.chunk_num < info.num_chunks - 1 THEN @ + 1 ELSE @,
               ![t].chunk_num = @ + 1,
               ![t].pc = "loop"]
    /\ UNCHANGED <<oco, grid_vars, now, active_twap_orders, twap_stop_flags, twap_infos, twap_ret>>

\* the status _execute_twap assigns after its loop (line 233), whether the
\* loop ran out of chunks or was left by the break of the stop check
StatusAfterLoop(observed_stop) == "COMPLETED"

\* _execute_twap, lines 232-234
execute_twap_complete(t) ==
    /\ t \in DOMAIN twap_threads
    /\ twap_threads[t].pc = "complete"
    /\ LET th == twap_threads[t]
       IN  twap_infos' = [twap_infos EXCEPT
               ![th.info].status = StatusAfterLoop(th.observed_stop),
               ![th.info].has_end_time = TRUE]
    /\ twap_threads' = [twap_threads EXCEPT ![t].pc = "display"]
    /\ UNCHANGED <<oco, grid_vars, now, active_twap_orders, twap_stop_flags, twap_ret>>

\* _execute_twap, lines 236-242: the completion summary is printed inside the
\* try block; a print that raises lands in the handler that sets FAILED
execute_twap_display(t) ==
    /\ t \in DOMAIN twap_threads
    /\ twap_threads[t].pc = "display"
    /\ \E display_raises \in BOOLEAN :
       LET th == twap_threads[t]
       IN  IF display_raises
           THEN twap_infos' = [twap_infos EXCEPT ![th.info].status = "FAILED",
                                                 ![th.info].has_error = TRUE]
           ELSE twap_infos' = twap_infos
    /\ twap_threads' = [twap_threads EXCEPT ![t].pc = "done"]
    /\ UNCHANGED <<oco, grid_vars, now, active_twap_orders, twap_stop_flags, twap_ret>>

\* mutant of SetStopFlag: a stop request flips the flag
SetStopFlag_Flips(stop_flags, id) == [stop_flags EXCEPT ![id] = ~@]

\* self.stop_flags[id] = True (twap.py line 332, grid_orders.py line 345)
SetStopFlag(stop_flags, id) == [stop_flags EXCEPT ![id] = TRUE]

\* stop_twap_order
stop_twap_order(twap_id) ==
    /\ IF twap_id \in DOMAIN twap_stop_flags
       THEN /\ twap_stop_flags' = SetStopFlag(twap_stop_flags, twap_id)
            /\ twap_ret' = [op |-> "stop_twap_order", outcome |-> "True",
                            client_calls |-> <<>>]
       ELSE /\ twap_stop_flags' = twap_stop_flags
            /\ twap_ret' = [op |-> "stop_twap_order", outcome |-> "False",
                            client_calls |-> <<>>]
    /\ UNCHANGED <<oco, grid_vars, now, active_twap_orders, twap_infos, twap_threads>>

\* the result of a get(id, {}) on a registry: the run record the registry
\* holds for the id (the object itself, named by its slot), or an empty dict
RegistryGet(registry, id) == DictGet(registry, id, "{}")

\* get_twap_status.  `seen` is what the returned object held when the call
\* returned; it is not part of the returned value.
get_twap_status(twap_id) ==
    /\ LET result == RegistryGet(active_twap_orders, twap_id)
       IN  twap_ret' = [op |-> "get_twap_status", outcome |-> "returned",
                        client_calls |-> <<>>,
                        result |-> result,
                        seen |-> DictGet(twap_infos, result, "{}")]
    /\ UNCHANGED <<oco, grid_vars, now, active_twap_orders, twap_stop_flags, twap_infos,
                   twap_threads>>

\* the clock second advances (time.time() is read when a run id is generated)
Tick ==
    /\ now < MaxClock
    /\ now' = now + 1
    /\ UNCHANGED <<twap_vars, grid_vars, oco>>

\* ticks matter to the TWAP manager while it can still generate an id
TwapTick ==
    /\ \E r \in TwapSlots : r \notin DOMAIN twap_infos
    /\ Tick

TwapInit ==
    /\ active_twap_orders = <<>>
    /\ twap_stop_flags = <<>>
    /\ twap_infos = <<>>
    /\ twap_threads = <<>>
    /\ twap_ret = NoRet

TwapNext ==
    \/ TwapTick
    \/ place_twap_order_invalid
    \/ place_twap_order_unreachable
    \/ \E r \in TwapSlots : place_twap_order(r)
    \/ \E t \in TwapSlots : execute_twap_start(t)
    \/ \E t \in TwapSlots : execute_twap_loop(t)
    \/ \E t \in TwapSlots : execute_chunk_price(t)
    \/ \E t \in TwapSlots : execute_chunk_order(t)
    \/ \E t \in TwapSlots : execute_twap_wait(t)
    \/ \E t \in TwapSlots : execute_twap_complete(t)
    \/ \E t \in TwapSlots : execute_twap_display(t)
    \/ \E twap_id \in TwapIds : stop_twap_order(twap_id)

\* =================================================================== Grid
GridSlots == {"g1"}

\* src.logger.BotLogger.log_order_attempt requires `side` and `quantity`;
\* place_grid_orders passes neither, so with the repository's logger the call
\* raises TypeError.  Logging is a collaborator of the engine: "Substitute"
\* is a logger whose log_order_attempt accepts the keywords it is given.
Loggers == {"BotLogger", "Substitute"}

log_order_attempt_accepts(logger, has_side, has_quantity) ==
    \/ logger = "Substitute"
    \/ (has_side /\ has_quantity)

GridBase ==
    [symbol |-> "BTCUSDT", lower_price |-> 100, upper_price |-> 120,
     quantity_per_level |-> 1, num_levels |-> 3, rebalance |-> TRUE]

GridAccepted ==
    {[GridBase EXCEPT !.rebalance = b] : b \in BOOLEAN}

GridMalformed ==
    {[GridBase EXCEPT !.symbol = "BTC"],
     [GridBase EXCEPT !.lower_price = 0],
     [GridBase EXCEPT !.upper_price = 0],
     [GridBase EXCEPT !.quantity_per_level = 0],
     [GridBase EXCEPT !.lower_price = 120],
     [GridBase EXCEPT !.num_levels = 2],
     [GridBase EXCEPT !.num_levels = 51],
     [GridBase EXCEPT !.upper_price = 104]}

GridRequests == GridAccepted \cup GridMalformed

\* prices the ticker reports when a grid is started
GridTickerPrices == {100, 110}

GridId(symbol, ts) == [symbol |-> symbol, ts |-> ts]

GridIds == {GridId(s, t) : s \in ValidSymbols, t \in 0..MaxClock}

validate_grid_order(symbol, lower_price, upper_price, quantity_per_level, num_levels) ==
    /\ validate_symbol(symbol)
    /\ validate_price(lower_price)
    /\ validate_price(upper_price)
    /\ validate_quantity(quantity_per_level)
    /\ ~(lower_price >= upper_price)
    /\ ~(num_levels < 3)
    /\ ~(num_levels > 50)
    /\ ~((upper_price - lower_price) * 100 < 5 * lower_price)

\* The quotient a / b as the arithmetic of prices represents it.  Prices are
\* whole numbers of the finest step the arithmetic represents, and a quotient
\* that is not such a number is rounded to the nearest one, as Python's float
\* division rounds to the nearest double.
RoundedQuotient(a, b) == (2 * a + b) \div (2 * b)

\* _calculate_grid_levels
calculate_grid_levels(lower_price, upper_price, num_levels) ==
    LET price_step == RoundedQuotient(upper_price - lower_price, num_levels - 1)
    IN  [i \in 1..num_levels |-> lower_price + (i - 1) * price_step]

NewGridInfo(grid_id, symbol, req, current_price) ==
    [grid_id            |-> grid_id,
     symbol             |-> symbol,
     lower_price        |-> req.lower_price,
     upper_price        |-> req.upper_price,
     current_price      |-> current_price,
     quantity_per_level |-> req.quantity_per_level,
     num_levels         |-> req.num_levels,
     rebalance          |-> req.rebalance,
     grid_levels        |-> calculate_grid_levels(req.lower_price, req.upper_price,
                                                  req.num_levels),
     buy_orders         |-> <<>>,
     sell_orders        |-> <<>>,
     filled_orders      |-> <<>>,
     total_profit       |-> 0,
     status             |-> "ACTIVE",
     has_end_time       |-> FALSE,
     cancel_all_returned |-> FALSE]   \* history: a cancel_all_grid_orders call on
                                      \* this run has returned

GridRet(op, outcome, calls) == [op |-> op, outcome |-> outcome, client_calls |-> calls]

\* how a place_grid_orders call that raised before registering anything ended,
\* with the request it was given
GridStartRet(req, outcome, calls) ==
    [op |-> "place_grid_orders", req |-> req, outcome |-> outcome, client_calls |-> calls]

GridReqValid(req) ==
    validate_grid_order(Normalize(req.symbol), req.lower_price, req.upper_price,
                        req.quantity_per_level, req.num_levels)

\* mutant of price_in_range: a price on a bound of the range is accepted
price_in_range_Inclusive(lower_price, current_price, upper_price) ==
    lower_price <= current_price /\ current_price <= upper_price

\* place_grid_orders, line 81: lower_price < current_price < upper_price
price_in_range(lower_price, current_price, upper_price) ==
    lower_price < current_price /\ current_price < upper_price

\* place_grid_orders, lines 55-63: the attempt is logged before validation
place_grid_orders_log_raises ==
    /\ \E free \in GridSlots : free \notin DOMAIN grid_infos
    /\ ~log_order_attempt_accepts(bot_logger, FALSE, FALSE)
    /\ \E req \in GridRequests :
        grid_ret' = GridStartRet(req, "TypeError", <<>>)
    /\ UNCHANGED <<oco, twap_vars, now, bot_logger, active_grids, grid_stop_flags, grid_infos,
                   grid_place, grid_threads, grid_cancel>>

\* place_grid_orders rejected by _validate_grid_order
place_grid_orders_invalid ==
    /\ \E free \in GridSlots : free \notin DOMAIN grid_infos
    /\ log_order_attempt_accepts(bot_logger, FALSE, FALSE)
    /\ \E req \in GridRequests :
        /\ ~GridReqValid(req)
        /\ grid_ret' = GridStartRet(req, "ValueError", <<>>)
    /\ UNCHANGED <<oco, twap_vars, now, bot_logger, active_grids, grid_stop_flags, grid_infos,
                   grid_place, grid_threads, grid_cancel>>

\* place_grid_orders, lines 70-82: the pre-flight failures
place_grid_orders_preflight_fails ==
    /\ \E free \in GridSlots : free \notin DOMAIN grid_infos
    /\ log_order_attempt_accepts(bot_logger, FALSE, FALSE)
    /\ \E req \in GridRequests :
        /\ GridReqValid(req)
        /\ \/ grid_ret' = GridStartRet(req, "ConnectionError", <<"test_connectivity">>)
           \/ grid_ret' = GridStartRet(req, "RequestException",
                                       <<"test_connectivity", "get_symbol_price">>)
           \/ \E current_price \in GridTickerPrices :
                /\ ~price_in_range(req.lower_price, current_price, req.upper_price)
                /\ grid_ret' = GridStartRet(req, "ValueError",
                                            <<"test_connectivity", "get_symbol_price">>)
    /\ UNCHANGED <<oco, twap_vars, now, bot_logger, active_grids, grid_stop_flags, grid_infos,
                   grid_place, grid_threads, grid_cancel>>

\* place_grid_orders, lines 84-108: the run is registered, then placement begins
place_grid_orders(r) ==
    /\ log_order_attempt_accepts(bot_logger, FALSE, FALSE)
    /\ r \notin DOMAIN grid_infos
    /\ \E req \in GridRequests, current_price \in GridTickerPrices :
        LET sym == Normalize(req.symbol)
            grid_id == GridId(sym, now)
        IN  /\ GridReqValid(req)
            /\ price_in_range(req.lower_price, current_price, req.upper_price)
            /\ grid_infos' = DictSet(grid_infos, r,
                                     NewGridInfo(grid_id, sym, req, current_price))
            /\ active_grids' = DictSet(active_grids, grid_id, r)
            /\ grid_stop_flags' = DictSet(grid_stop_flags, grid_id, FALSE)
            /\ grid_place' = DictSet(grid_place, r,
                                     [grid_id |-> grid_id, pc |-> "placing", level |-> 1,
                                      raised |-> <<>>, calls |-> <<>>])
    /\ UNCHANGED <<oco, twap_vars, now, bot_logger, grid_threads, grid_cancel, grid_ret>>

\* mutant of LevelSide: the level at the current price gets a BUY order
LevelSide_PivotBuys(level_price, current_price) ==
    IF level_price <= current_price THEN "BUY" ELSE "SELL"

\* _place_initial_grid_orders, lines 195 and 210: the side of the order placed
\* at a level, "none" when neither branch is taken
LevelSide(level_price, current_price) ==
    IF level_price < current_price THEN "BUY"
    ELSE IF level_price > current_price THEN "SELL"
    ELSE "none"

\* one LIMIT order submission of _place_initial_grid_orders
LevelCall(info, level_price, raised) ==
    [side |-> LevelSide(level_price, info.current_price), price |-> level_price,
     quantity |-> info.quantity_per_level, raised |-> raised]

NewGridOrder(level_price) ==
    [order |-> [orderId |-> level_price], level_price |-> level_price, status |-> "PLACED"]

\* what _place_initial_grid_orders records for a level whose placement raised
\* (lines 232-233)
LevelFailureRecord(info, level_price) == info

\* what it records for a level whose order was accepted (lines 205-209, 222-226)
LevelSuccessRecord(info, level_price) ==
    IF LevelSide(level_price, info.current_price) = "BUY"
    THEN [info EXCEPT !.buy_orders = Append(@, NewGridOrder(level_price))]
    ELSE [info EXCEPT !.sell_orders = Append(@, NewGridOrder(level_price))]

\* mutant of PcAfterLevel: a level whose placement raised ends the loop
PcAfterLevel_AbortsOnFailure(info, k, raised) ==
    IF raised \/ k = Len(info.grid_levels) THEN "display" ELSE "placing"

\* where _place_initial_grid_orders goes after level k: the handler of lines
\* 231-232 is inside the loop, so the next level follows whether the
\* placement raised or not
PcAfterLevel(info, k, raised) ==
    IF k = Len(info.grid_levels) THEN "display" ELSE "placing"

\* _place_initial_grid_orders, one iteration of the loop over grid_levels
place_initial_grid_orders(r) ==
    /\ r \in DOMAIN grid_place
    /\ grid_place[r].pc = "placing"
    /\ LET info == grid_infos[r]
           k == grid_place[r].level
           level_price == info.grid_levels[k]
           next_pc == PcAfterLevel(info, k, FALSE)
       IN  IF LevelSide(level_price, info.current_price) = "none"
           THEN /\ grid_place' = [grid_place EXCEPT ![r].level = k + 1, ![r].pc = next_pc]
                /\ grid_infos' = grid_infos
           ELSE \/ \* place_order raises
                   /\ grid_place' = [grid_place EXCEPT
                          ![r].level = k + 1,
                          ![r].pc = PcAfterLevel(info, k, TRUE),
                          ![r].raised = Append(@, level_price),
                          ![r].calls = Append(@, LevelCall(info, level_price, TRUE))]
                   /\ grid_infos' = [grid_infos EXCEPT
                                        ![r] = LevelFailureRecord(info, level_price)]
                \/ \* place_order returns the order
                   /\ grid_place' = [grid_place EXCEPT
                          ![r].level = k + 1,
                          ![r].pc = next_pc,
                          ![r].calls = Append(@, LevelCall(info, level_price, FALSE))]
                   /\ grid_infos' = [grid_infos EXCEPT
                                        ![r] = LevelSuccessRecord(info, level_price)]
    /\ UNCHANGED <<oco, twap_vars, now, bot_logger, active_grids, grid_stop_flags,
                   grid_threads, grid_cancel, grid_ret>>

\* reply records how the last get_order query of the thread ended
NewGridThread(grid_id) ==
    [grid_id |-> grid_id, info |-> "unbound", pc |-> "start", side |-> "buy", idx |-> 1,
     tick_raised |-> FALSE, last_sleep |-> 0, reply |-> "none"]

\* place_grid_orders, lines 113-125: summary, monitor thread, return
place_grid_orders_return(r) ==
    /\ r \in DOMAIN grid_place
    /\ grid_place[r].pc = "display"
    /\ \E display_raises \in BOOLEAN :
        IF display_raises
        THEN /\ grid_ret' = GridRet("place_grid_orders", "OSError", <<>>)
             /\ grid_threads' = grid_threads
        ELSE /\ grid_ret' = GridRet("place_grid_orders", "returned", <<>>)
             /\ grid_threads' = IF grid_infos[r].rebalance
                                THEN DictSet(grid_threads, r,
                                             NewGridThread(grid_place[r].grid_id))
                                ELSE grid_threads
    /\ grid_place' = [grid_place EXCEPT ![r].pc = "done"]
    /\ UNCHANGED <<oco, twap_vars, now, bot_logger, active_grids, grid_stop_flags, grid_infos,
                   grid_cancel>>

\* _monitor_grid, line 239
monitor_grid_start(t) ==
    /\ t \in DOMAIN grid_threads
    /\ grid_threads[t].pc = "start"
    /\ grid_threads' = [grid_threads EXCEPT
           ![t].info = active_grids[grid_threads[t].grid_id],
           ![t].pc = "loop"]
    /\ UNCHANGED <<oco, twap_vars, now, bot_logger, active_grids, grid_stop_flags, grid_infos,
                   grid_place, grid_cancel, grid_ret>>

\* _monitor_grid, line 241: the loop condition
monitor_grid_loop(t) ==
    /\ t \in DOMAIN grid_threads
    /\ grid_threads[t].pc = "loop"
    /\ LET th == grid_threads[t]
           info == grid_infos[th.info]
       IN  IF ~DictGet(grid_stop_flags, th.grid_id, FALSE) /\ info.status = "ACTIVE"
           THEN grid_threads' = [grid_threads EXCEPT ![t].pc = "check", ![t].side = "buy",
                                                     ![t].idx = 1]
           ELSE grid_threads' = [grid_threads EXCEPT ![t].pc = "exit"]
    /\ UNCHANGED <<oco, twap_vars, now, bot_logger, active_grids, grid_stop_flags, grid_infos,
                   grid_place, grid_cancel, grid_ret>>

OrdersOf(info, side) == IF side = "buy" THEN info.buy_orders ELSE info.sell_orders

\* The loops over buy_orders and then sell_orders, from position <<side, idx>>:
\* the first order whose status is PLACED, or "end" when there is none left.
\* (An order that is not PLACED never becomes PLACED again, so the orders
\* skipped on the way would be skipped whenever they are read.)
NextPlaced(info, side, idx) ==
    LET buys == {i \in idx..Len(info.buy_orders) : info.buy_orders[i].status = "PLACED"}
        from == IF side = "buy" THEN 1 ELSE idx
        sells == {i \in from..Len(info.sell_orders) :
                     info.sell_orders[i].status = "PLACED"}
        Min(S) == CHOOSE x \in S : \A y \in S : x <= y
    IN  IF side = "buy" /\ buys # {} THEN [side |-> "buy", idx |-> Min(buys)]
        ELSE IF sells # {} THEN [side |-> "sell", idx |-> Min(sells)]
        ELSE [side |-> "end", idx |-> 1]

SetOrderStatus(info, side, idx, status) ==
    IF side = "buy"
    THEN [info EXCEPT !.buy_orders[idx].status = status]
    ELSE [info EXCEPT !.sell_orders[idx].status = status]

\* _check_filled_orders, lines 265-266 and 285-286: the loops reach the next
\* PLACED order and send its get_order query, or end
check_filled_orders_visit(t) ==
    /\ t \in DOMAIN grid_threads
    /\ grid_threads[t].pc = "check"
    /\ LET th == grid_threads[t]
           nxt == NextPlaced(grid_infos[th.info], th.side, th.idx)
       IN  IF nxt.side = "end"
           THEN grid_threads' = [grid_threads EXCEPT ![t].pc = "sleep",
                                                     ![t].reply = "none"]
           ELSE grid_threads' = [grid_threads EXCEPT ![t].pc = "query",
                                                     ![t].side = nxt.side,
                                                     ![t].idx = nxt.idx,
                                                     ![t].reply = "none"]
    /\ UNCHANGED <<oco, twap_vars, now, bot_logger, active_grids, grid_stop_flags, grid_infos,
                   grid_place, grid_cancel, grid_ret>>

FilledRecord(side, order_info) ==
    [type |-> IF side = "buy" THEN "BUY" ELSE "SELL",
     order |-> [orderId |-> order_info.order.orderId, status |-> "FILLED"],
     level_price |-> order_info.level_price]

\* mutant of FillDetected: the order is marked FILLED and not appended
FillDetected_NoAppend(info, side, idx) == SetOrderStatus(info, side, idx, "FILLED")

\* _check_filled_orders, lines 272-278 and 292-298: the run's record after a
\* query that reported FILLED
FillDetected(info, side, idx) ==
    [SetOrderStatus(info, side, idx, "FILLED") EXCEPT
        !.filled_orders = Append(@, FilledRecord(side, OrdersOf(info, side)[idx]))]

\* _check_filled_orders: the get_order query returns or raises
check_filled_orders_reply(t) ==
    /\ t \in DOMAIN grid_threads
    /\ grid_threads[t].pc = "query"
    /\ LET th == grid_threads[t]
           info == grid_infos[th.info]
       IN  \/ \* get_order raises: logged inside _check_filled_orders
              /\ grid_threads' = [grid_threads EXCEPT ![t].pc = "check", ![t].idx = @ + 1,
                                                      ![t].tick_raised = TRUE,
                                                      ![t].reply = "raised"]
              /\ grid_infos' = grid_infos
           \/ \* the order is not filled
              /\ grid_threads' = [grid_threads EXCEPT ![t].pc = "check", ![t].idx = @ + 1,
                                                      ![t].reply = "NEW"]
              /\ grid_infos' = grid_infos
           \/ \* the order is FILLED
              /\ grid_threads' = [grid_threads EXCEPT ![t].pc = "check", ![t].idx = @ + 1,
                                                      ![t].reply = "FILLED"]
              /\ grid_infos' = [grid_infos EXCEPT
                                   ![th.info] = FillDetected(info, th.side, th.idx)]
    /\ UNCHANGED <<oco, twap_vars, now, bot_logger, active_grids, grid_stop_flags,
                   grid_place, grid_cancel, grid_ret>>

\* mutant of rebalance_grid: a filled sell order is replaced by a buy order
\* one level below
rebalance_grid_Replaces(info) ==
    IF info.filled_orders # <<>> /\ Len(info.buy_orders) < Len(info.grid_levels)
    THEN [info EXCEPT !.buy_orders = Append(@, NewGridOrder(info.grid_levels[2]))]
    ELSE info

\* _rebalance_grid, lines 304-308: `pass`
rebalance_grid(info) == info

\* _monitor_grid, lines 246-251: the rebalance stub and the wait before the
\* next check (the handler of line 253 is not reached: _check_filled_orders
\* catches what its queries raise)
monitor_grid_sleep(t) ==
    /\ t \in DOMAIN grid_threads
    /\ grid_threads[t].pc = "sleep"
    /\ LET th == grid_threads[t]
           info == grid_infos[th.info]
       IN  grid_infos' = [grid_infos EXCEPT
               ![th.info] = IF info.rebalance THEN rebalance_grid(info) ELSE info]
    /\ grid_threads' = [grid_threads EXCEPT ![t].pc = "loop", ![t].last_sleep = 10,
                                            ![t].tick_raised = FALSE]
    /\ UNCHANGED <<oco, twap_vars, now, bot_logger, active_grids, grid_stop_flags,
                   grid_place, grid_cancel, grid_ret>>

\* the status _monitor_grid assigns when its loop exits (line 257)
MonitorExitStatus(status) == "STOPPED"

\* _monitor_grid, lines 257-258
monitor_grid_exit(t) ==
    /\ t \in DOMAIN grid_threads
    /\ grid_threads[t].pc = "exit"
    /\ LET th == grid_threads[t]
       IN  grid_infos' = [grid_infos EXCEPT
               ![th.info].status = MonitorExitStatus(grid_infos[th.info].status)]
    /\ grid_threads' = [grid_threads EXCEPT ![t].pc = "done"]
    /\ UNCHANGED <<oco, twap_vars, now, bot_logger, active_grids, grid_stop_flags,
                   grid_place, grid_cancel, grid_ret>>

\* stop_grid
stop_grid(grid_id) ==
    /\ IF grid_id \in DOMAIN grid_stop_flags
       THEN /\ grid_stop_flags' = SetStopFlag(grid_stop_flags, grid_id)
            /\ grid_ret' = GridRet("stop_grid", "True", <<>>)
       ELSE /\ grid_stop_flags' = grid_stop_flags
            /\ grid_ret' = GridRet("stop_grid", "False", <<>>)
    /\ UNCHANGED <<oco, twap_vars, now, bot_logger, active_grids, grid_infos, grid_place,
                   grid_threads, grid_cancel>>

IdleCancel == [pc |-> "idle", grid_id |-> "none", info |-> "none", side |-> "buy",
               idx |-> 1, cancelled_orders |-> <<>>, failed |-> <<>>]

\* cancel_all_grid_orders, lines 352-357
cancel_all_grid_orders(grid_id) ==
    /\ grid_cancel.pc = "idle"
    /\ IF grid_id \notin DOMAIN active_grids
       THEN /\ grid_ret' = GridRet("cancel_all_grid_orders", "ValueError", <<>>)
            /\ grid_cancel' = grid_cancel
       ELSE /\ grid_ret' = grid_ret
            /\ grid_cancel' = [IdleCancel EXCEPT !.pc = "visit", !.grid_id = grid_id,
                                                 !.info = active_grids[grid_id]]
    /\ UNCHANGED <<oco, twap_vars, now, bot_logger, active_grids, grid_stop_flags, grid_infos,
                   grid_place, grid_threads>>

\* cancel_all_grid_orders, lines 360-361 and 372-373: the loops reach the next
\* PLACED order and send its cancel, or end
cancel_all_visit ==
    /\ grid_cancel.pc = "visit"
    /\ LET nxt == NextPlaced(grid_infos[grid_cancel.info], grid_cancel.side, grid_cancel.idx)
       IN  IF nxt.side = "end"
           THEN grid_cancel' = [grid_cancel EXCEPT !.pc = "finish"]
           ELSE grid_cancel' = [grid_cancel EXCEPT !.pc = "cancel", !.side = nxt.side,
                                                   !.idx = nxt.idx]
    /\ UNCHANGED <<oco, twap_vars, now, bot_logger, active_grids, grid_stop_flags, grid_infos,
                   grid_place, grid_threads, grid_ret>>

\* mutant of PcAfterCancelRaised: the first failure ends the loops
PcAfterCancelRaised_Aborts(side) == "finish"

\* where cancel_all_grid_orders goes on after a cancel_order that raised
\* (lines 369-370 and 380-381: the error is logged inside the loop)
PcAfterCancelRaised(side) == "visit"

\* cancel_all_grid_orders, lines 362-369 and 374-381: cancel_order returns or raises
cancel_all_reply ==
    /\ grid_cancel.pc = "cancel"
    /\ LET info == grid_infos[grid_cancel.info]
           order_info == OrdersOf(info, grid_cancel.side)[grid_cancel.idx]
       IN  \/ \* cancel_order raises: logged
              /\ grid_cancel' = [grid_cancel EXCEPT
                                     !.pc = PcAfterCancelRaised(grid_cancel.side),
                                     !.idx = @ + 1,
                                     !.failed = Append(@, order_info.order.orderId)]
              /\ grid_infos' = grid_infos
           \/ \* cancel_order returns
              /\ grid_cancel' = [grid_cancel EXCEPT !.pc = "visit", !.idx = @ + 1,
                                     !.cancelled_orders =
                                         Append(@, [orderId |-> order_info.order.orderId,
                                                    status |-> "CANCELED"])]
              /\ grid_infos' = [grid_infos EXCEPT ![grid_cancel.info] =
                     SetOrderStatus(info, grid_cancel.side, grid_cancel.idx, "CANCELLED")]
    /\ UNCHANGED <<oco, twap_vars, now, bot_logger, active_grids, grid_stop_flags,
                   grid_place, grid_threads, grid_ret>>

\* the value cancel_all_grid_orders returns (line 386)
CancelAllResult(cancelled_orders) == [cancelled_orders |-> cancelled_orders]

\* cancel_all_grid_orders, lines 383-386
cancel_all_return ==
    /\ grid_cancel.pc = "finish"
    /\ grid_infos' = [grid_infos EXCEPT ![grid_cancel.info].status = "CANCELLED",
                                        ![grid_cancel.info].cancel_all_returned = TRUE]
    /\ grid_ret' = [op |-> "cancel_all_grid_orders", outcome |-> "returned",
                    client_calls |-> <<>>,
                    grid_id |-> grid_cancel.grid_id,
                    result |-> CancelAllResult(grid_cancel.cancelled_orders)]
    /\ grid_cancel' = IdleCancel
    /\ UNCHANGED <<oco, twap_vars, now, bot_logger, active_grids, grid_stop_flags,
                   grid_place, grid_threads>>

\* get_grid_status.  `seen` is what the returned object held when the call
\* returned; it is not part of the returned value.
get_grid_status(grid_id) ==
    /\ LET result == RegistryGet(active_grids, grid_id)
       IN  grid_ret' = [op |-> "get_grid_status", outcome |-> "returned",
                        client_calls |-> <<>>,
                        result |-> result,
                        seen |-> DictGet(grid_infos, result, "{}")]
    /\ UNCHANGED <<oco, twap_vars, now, bot_logger, active_grids, grid_stop_flags,
                   grid_infos, grid_place, grid_threads, grid_cancel>>

\* ticks matter to the Grid manager while it can still generate an id
GridTick ==
    /\ \E r \in GridSlots : r \notin DOMAIN grid_infos
    /\ Tick

GridInit ==
    /\ active_grids = <<>>
    /\ grid_stop_flags = <<>>
    /\ grid_infos = <<>>
    /\ grid_place = <<>>
    /\ grid_threads = <<>>
    /\ grid_cancel = IdleCancel
    /\ grid_ret = NoRet

GridNext ==
    \/ GridTick
    \/ place_grid_orders_log_raises
    \/ place_grid_orders_invalid
    \/ place_grid_orders_preflight_fails
    \/ \E r \in GridSlots : place_grid_orders(r)
    \/ \E r \in GridSlots : place_initial_grid_orders(r)
    \/ \E r \in GridSlots : place_grid_orders_return(r)
    \/ \E t \in GridSlots : monitor_grid_start(t)
    \/ \E t \in GridSlots : monitor_grid_loop(t)
    \/ \E t \in GridSlots : check_filled_orders_visit(t)
    \/ \E t \in GridSlots : check_filled_orders_reply(t)
    \/ \E t \in GridSlots : monitor_grid_sleep(t)
    \/ \E t \in GridSlots : monitor_grid_exit(t)
    \/ \E grid_id \in GridIds : stop_grid(grid_id)
    \/ \E grid_id \in GridIds : cancel_all_grid_orders(grid_id)
    \/ cancel_all_visit
    \/ cancel_all_reply
    \/ cancel_all_return

\* ==================================================================== OCO
\* stop_limit_price = None
None == 0 - 1

OcoBase ==
    [symbol |-> "BTCUSDT", side |-> "SELL", quantity |-> 10,
     take_profit_price |-> 48000, stop_loss_price |-> 52000, stop_limit_price |-> None]

\* well-formed requests on both sides, with the two prices in either order and
\* equal, with and without a stop limit price, at the smallest and at a larger
\* quantity
OcoWellFormed ==
    {[OcoBase EXCEPT !.side = sd, !.quantity = q, !.take_profit_price = tp,
                     !.stop_loss_price = sl, !.stop_limit_price = lim] :
        sd \in {"SELL", "buy"}, q \in {MIN_QUANTITY, 10},
        tp \in {48000, 52000}, sl \in {48000, 52000}, lim \in {None, 47500}}

OcoMalformed ==
    {[OcoBase EXCEPT !.symbol = "BTC"],
     [OcoBase EXCEPT !.side = "HOLD"],
     [OcoBase EXCEPT !.quantity = 0],
     [OcoBase EXCEPT !.take_profit_price = 0],
     [OcoBase EXCEPT !.stop_loss_price = 0],
     [OcoBase EXCEPT !.stop_limit_price = 0]}

OcoRequests == OcoWellFormed \cup OcoMalformed

\* place_oco_order, lines 45-50: normalisation and the stop limit default
OcoNormalized(req) ==
    [req EXCEPT !.symbol = Normalize(req.symbol),
                !.side = Normalize(req.side),
                !.stop_limit_price = IF req.stop_limit_price = None
                                     THEN req.stop_loss_price ELSE req.stop_limit_price]

\* mutant of oco_prices_valid: equal prices pass
oco_prices_valid_AllowsEqual(side, take_profit_price, stop_loss_price) ==
    IF side = "SELL"
    THEN ~(take_profit_price > stop_loss_price)
    ELSE ~(take_profit_price < stop_loss_price)

\* the price rule of _validate_oco_order, lines 127-144
oco_prices_valid(side, take_profit_price, stop_loss_price) ==
    IF side = "SELL"
    THEN ~(take_profit_price >= stop_loss_price)
    ELSE ~(take_profit_price <= stop_loss_price)

\* _validate_oco_order
validate_oco_order(symbol, side, quantity, take_profit_price, stop_loss_price, stop_limit_price) ==
    /\ validate_symbol(symbol)
    /\ validate_side(side)
    /\ validate_quantity(quantity)
    /\ validate_price(take_profit_price)
    /\ validate_price(stop_loss_price)
    /\ validate_price(stop_limit_price)
    /\ oco_prices_valid(side, take_profit_price, stop_loss_price)

OcoReqValid(n) ==
    validate_oco_order(n.symbol, n.side, n.quantity, n.take_profit_price,
                       n.stop_loss_price, n.stop_limit_price)

NoOrder == [side |-> "none", type |-> "none", quantity |-> 0, price |-> 0, stopPrice |-> 0]

\* one call of the exchange client, as the exchange sees it
ClientCall(method, order, orderId, raised) ==
    [method |-> method, order |-> order, orderId |-> orderId, raised |-> raised]

IdleOco ==
    [pc |-> "idle", req |-> OcoBase, given |-> OcoBase, orders |-> <<>>, calls |-> <<>>,
     outcome |-> "none"]

\* place_oco_order rejected by _validate_oco_order (lines 64-66)
place_oco_order_invalid ==
    /\ oco.pc = "idle"
    /\ \E req \in OcoRequests :
        /\ ~OcoReqValid(OcoNormalized(req))
        /\ oco' = [IdleOco EXCEPT !.req = OcoNormalized(req), !.given = req,
                                  !.outcome = "ValueError"]
    /\ UNCHANGED <<now, twap_vars, grid_vars>>

\* place_oco_order, lines 68-85: connectivity check and price analysis
place_oco_order ==
    /\ oco.pc = "idle"
    /\ \E req \in OcoRequests, connected \in BOOLEAN, price_raises \in BOOLEAN :
        /\ OcoReqValid(OcoNormalized(req))
        /\ oco' = IF ~connected
                  THEN [IdleOco EXCEPT
                           !.req = OcoNormalized(req), !.given = req,
                           !.calls = <<ClientCall("test_connectivity", NoOrder, 0, TRUE)>>,
                           !.outcome = "ConnectionError"]
                  ELSE [IdleOco EXCEPT
                           !.req = OcoNormalized(req), !.given = req,
                           !.calls = <<ClientCall("test_connectivity", NoOrder, 0, FALSE),
                                       ClientCall("get_symbol_price", NoOrder, 0,
                                                  price_raises)>>,
                           !.pc = "take_profit"]
    /\ UNCHANGED <<now, twap_vars, grid_vars>>

\* the side of both legs (lines 177-178)
OcoLegSide(side) == IF side = "BUY" THEN "SELL" ELSE "BUY"

TakeProfitOrder(req) ==
    [side |-> OcoLegSide(req.side), type |-> "LIMIT", quantity |-> req.quantity,
     price |-> req.take_profit_price, stopPrice |-> 0]

\* mutant of StopLossOrder: trigger price and limit price change places
StopLossOrder_SwapsPrices(req) ==
    [side |-> OcoLegSide(req.side), type |-> "STOP", quantity |-> req.quantity,
     price |-> req.stop_loss_price, stopPrice |-> req.stop_limit_price]

\* the stop-loss leg (lines 212-220)
StopLossOrder(req) ==
    [side |-> OcoLegSide(req.side), type |-> "STOP", quantity |-> req.quantity,
     price |-> req.stop_limit_price, stopPrice |-> req.stop_loss_price]

\* mutant of PcAfterTakeProfitRaised: the stop-loss leg is placed all the same
PcAfterTakeProfitRaised_GoesOn == "stop_loss"

\* where place_oco_order goes on after a take-profit place_order that raised:
\* the handler of lines 237-246 finds no recorded order, cancels nothing and
\* re-raises, and so does the handler of place_oco_order (lines 98-111)
PcAfterTakeProfitRaised == "idle"

\* _place_simulated_oco, lines 188-206 and 237-246: the take-profit leg
place_simulated_oco_take_profit ==
    /\ oco.pc = "take_profit"
    /\ \/ \* place_order raises: nothing to cancel, the error is re-raised
          oco' = [oco EXCEPT
              !.calls = Append(@, ClientCall("place_order", TakeProfitOrder(oco.req), 0, TRUE)),
              !.pc = PcAfterTakeProfitRaised,
              !.outcome = "TakeProfitError"]
       \/ oco' = [oco EXCEPT
              !.calls = Append(@, ClientCall("place_order", TakeProfitOrder(oco.req), 1, FALSE)),
              !.orders = Append(@, [type |-> "TAKE_PROFIT", order |-> [orderId |-> 1]]),
              !.pc = "stop_loss"]
    /\ UNCHANGED <<now, twap_vars, grid_vars>>

\* _place_simulated_oco, lines 208-235: the stop-loss leg
place_simulated_oco_stop_loss ==
    /\ oco.pc = "stop_loss"
    /\ \/ \* place_order raises: handled at line 237
          oco' = [oco EXCEPT
              !.calls = Append(@, ClientCall("place_order", StopLossOrder(oco.req), 0, TRUE)),
              !.pc = "rollback"]
       \/ oco' = [oco EXCEPT
              !.calls = Append(@, ClientCall("place_order", StopLossOrder(oco.req), 2, FALSE)),
              !.orders = Append(@, [type |-> "STOP_LOSS", order |-> [orderId |-> 2]]),
              !.pc = "display"]
    /\ UNCHANGED <<now, twap_vars, grid_vars>>

\* the calls the handler of lines 237-246 adds when cancel_order raises or not
RollbackCalls(orders, cancel_raises) ==
    IF Len(orders) > 0
    THEN <<ClientCall("cancel_order", NoOrder, orders[1].order.orderId, cancel_raises)>>
    ELSE <<>>

\* mutant of RollbackOutcome: a failed cancel masks the placement error
RollbackOutcome_CancelMasks(cancel_raises) ==
    IF cancel_raises THEN "CancelError" ELSE "StopLossError"

\* the error the handler of lines 237-246 leaves to the caller
RollbackOutcome(cancel_raises) == "StopLossError"

\* _place_simulated_oco, lines 237-246: cancel the first order, re-raise
place_simulated_oco_rollback ==
    /\ oco.pc = "rollback"
    /\ \E cancel_raises \in BOOLEAN :
        oco' = [oco EXCEPT
            !.calls = @ \o RollbackCalls(oco.orders, cancel_raises),
            !.pc = "idle",
            !.outcome = RollbackOutcome(cancel_raises)]
    /\ UNCHANGED <<now, twap_vars, grid_vars>>

\* place_oco_order, lines 94-97: the summary is printed, the result returned
place_oco_order_return ==
    /\ oco.pc = "display"
    /\ \E display_raises \in BOOLEAN :
        oco' = [oco EXCEPT !.pc = "idle",
                           !.outcome = IF display_raises THEN "OSError" ELSE "returned"]
    /\ UNCHANGED <<now, twap_vars, grid_vars>>

OcoInit == oco = IdleOco

OcoNext ==
    \/ place_oco_order_invalid
    \/ place_oco_order
    \/ place_simulated_oco_take_profit
    \/ place_simulated_oco_stop_loss
    \/ place_simulated_oco_rollback
    \/ place_oco_order_return

\* the three managers as constructed, with the repository's logger
Init == now = 0 /\ bot_logger = "BotLogger" /\ TwapInit /\ GridInit /\ OcoInit

\* the same, with either logger behind bot_logger
InitAnyLogger == now = 0 /\ bot_logger \in Loggers /\ TwapInit /\ GridInit /\ OcoInit

\* the TWAP scheduler and the OCO coordinator
SpecTWAP == Init /\ [][TwapNext]_vars

SpecOCO == Init /\ [][OcoNext]_vars

\* the Grid manager, with either logger
SpecGrid == InitAnyLogger /\ [][GridNext]_vars

\* The worker thread started at lines 120-125 keeps running: it is a thread of
\* its own, every exchange call it makes returns or raises and every sleep
\* ends.  Nothing obliges a caller to start or stop a run.
TwapFairness ==
    /\ \A t \in TwapSlots : WF_vars(execute_twap_start(t))
    /\ \A t \in TwapSlots : WF_vars(execute_twap_loop(t))
    /\ \A t \in TwapSlots : WF_vars(execute_chunk_price(t))
    /\ \A t \in TwapSlots : WF_vars(execute_chunk_order(t))
    /\ \A t \in TwapSlots : WF_vars(execute_twap_wait(t))
    /\ \A t \in TwapSlots : WF_vars(execute_twap_complete(t))
    /\ \A t \in TwapSlots : WF_vars(execute_twap_display(t))

SpecTWAPFair == Init /\ [][TwapNext]_vars /\ TwapFairness

\* Two TWAP runs started one clock second apart, each with its worker thread
\* started (the state after two place_twap_order calls that returned).  Neither
\* run has a price limit, so the only exchange call of a worker is place_order.
InitTwoRuns ==
    /\ now = 1
    /\ bot_logger = "BotLogger"
    /\ GridInit
    /\ OcoInit
    /\ twap_infos = [r \in TwapCallSlots |->
           NewTwapInfo(TwapId("BTCUSDT", IF r = "t1" THEN 0 ELSE 1), "BTCUSDT",
                       TwapBase.side, TwapBase.total_quantity, TwapBase.num_chunks,
                       TwapBase.interval_seconds, TwapBase.price_limit, TRUE)]
    /\ active_twap_orders =
           (TwapId("BTCUSDT", 0) :> "t1") @@ (TwapId("BTCUSDT", 1) :> "t2")
    /\ twap_stop_flags =
           (TwapId("BTCUSDT", 0) :> FALSE) @@ (TwapId("BTCUSDT", 1) :> FALSE)
    /\ twap_threads = [r \in TwapCallSlots |->
           NewTwapThread(TwapId("BTCUSDT", IF r = "t1" THEN 0 ELSE 1))]
    /\ twap_ret = [op |-> "place_twap_order", outcome |-> "returned",
                   client_calls |-> <<"test_connectivity", "get_symbol_price">>]

\* the two workers and the callers' stop requests
TwoRunsNext ==
    \/ \E t \in TwapCallSlots : execute_twap_start(t)
    \/ \E t \in TwapCallSlots : execute_twap_loop(t)
    \/ \E t \in TwapCallSlots : execute_chunk_order(t)
    \/ \E t \in TwapCallSlots : execute_twap_wait(t)
    \/ \E t \in TwapCallSlots : execute_twap_complete(t)
    \/ \E t \in TwapCallSlots : execute_twap_display(t)
    \/ \E twap_id \in TwapIds : stop_twap_order(twap_id)

\* The worker of the second run keeps running; the worker of the first run
\* is under no obligation: it may stay inside an exchange call, or anywhere
\* else, for ever.
SecondRunFairness ==
    /\ WF_vars(execute_twap_start("t2"))
    /\ WF_vars(execute_twap_loop("t2"))
    /\ WF_vars(execute_chunk_order("t2"))
    /\ WF_vars(execute_twap_wait("t2"))
    /\ WF_vars(execute_twap_complete("t2"))
    /\ WF_vars(execute_twap_display("t2"))

SpecTwoRuns == InitTwoRuns /\ [][TwoRunsNext]_vars /\ SecondRunFairness

\* Threads that have been started keep running: the call of place_grid_orders
\* goes on through its placement loop and returns, the monitor thread started
\* at lines 117-123 is scheduled again and again, and a call of
\* cancel_all_grid_orders goes through its loops and returns.  Nothing obliges
\* a caller to start, stop or cancel a run.
GridFairness ==
    /\ \A r \in GridSlots : WF_vars(place_initial_grid_orders(r))
    /\ \A r \in GridSlots : WF_vars(place_grid_orders_return(r))
    /\ \A t \in GridSlots : WF_vars(monitor_grid_start(t))
    /\ \A t \in GridSlots : WF_vars(monitor_grid_loop(t))
    /\ \A t \in GridSlots : WF_vars(check_filled_orders_visit(t))
    /\ \A t \in GridSlots : WF_vars(check_filled_orders_reply(t))
    /\ \A t \in GridSlots : WF_vars(monitor_grid_sleep(t))
    /\ \A t \in GridSlots : WF_vars(monitor_grid_exit(t))
    /\ WF_vars(cancel_all_visit)
    /\ WF_vars(cancel_all_reply)
    /\ WF_vars(cancel_all_return)

SpecGridFair == InitAnyLogger /\ [][GridNext]_vars /\ GridFairness

\* The TWAP scheduler and the Grid manager in one process.  The two managers
\* share no state (each has its own registry, stop flags and threads), so a
\* step of one never enables, disables or changes a step of the other: the
\* behaviours in which only TwapOrderManager is used and those in which only
\* GridOrderManager is used are explored from the same initial states.
ManagersNext ==
    \/ GridInit /\ TwapNext
    \/ TwapInit /\ GridNext

SpecManagers == InitAnyLogger /\ [][ManagersNext]_vars


\* The operations a caller invokes on the managers (start, stop, status,
\* cancel), in any order, before any worker thread is scheduled; one manager
\* is used per behaviour, as in ManagersNext.
CallsNext ==
    \/ Tick
    \/ GridInit /\ place_twap_order_invalid
    \/ GridInit /\ place_twap_order_unreachable
    \/ GridInit /\ \E r \in TwapCallSlots : place_twap_order(r)
    \/ GridInit /\ \E twap_id \in TwapIds : stop_twap_order(twap_id)
    \/ GridInit /\ \E twap_id \in TwapIds : get_twap_status(twap_id)
    \/ TwapInit /\ place_grid_orders_log_raises
    \/ TwapInit /\ place_grid_orders_invalid
    \/ TwapInit /\ place_grid_orders_preflight_fails
    \/ TwapInit /\ \E r \in GridSlots : place_grid_orders(r)
    \/ TwapInit /\ \E r \in GridSlots : place_initial_grid_orders(r)
    \/ TwapInit /\ \E r \in GridSlots : place_grid_orders_return(r)
    \/ TwapInit /\ \E grid_id \in GridIds : stop_grid(grid_id)
    \/ TwapInit /\ \E grid_id \in GridIds : get_grid_status(grid_id)
    \/ TwapInit /\ \E grid_id \in GridIds : cancel_all_grid_orders(grid_id)
    \/ TwapInit /\ cancel_all_visit
    \/ TwapInit /\ cancel_all_reply
    \/ TwapInit /\ cancel_all_return

SpecCalls == InitAnyLogger /\ [][CallsNext]_vars

\* the ranges and level counts _calculate_grid_levels is applied to
MaxLevels == 13

LevelLowerPrices == {100, 101, 45000}

LevelUpperPrices == {106, 110, 120, 131, 55000}

\* _calculate_grid_levels applied to the range and level count of a request
\* that _validate_grid_order accepts
calculate_grid_levels_call ==
    /\ \E lower_price \in LevelLowerPrices, upper_price \in LevelUpperPrices,
          num_levels \in 3..MaxLevels :
          /\ validate_grid_order("BTCUSDT", lower_price, upper_price, MIN_QUANTITY,
                                 num_levels)
          /\ grid_ret' = [op |-> "_calculate_grid_levels",
                          lower_price |-> lower_price,
                          upper_price |-> upper_price,
                          num_levels |-> num_levels,
                          result |-> calculate_grid_levels(lower_price, upper_price,
                                                           num_levels)]
    /\ UNCHANGED <<oco, twap_vars, now, bot_logger, active_grids, grid_stop_flags, grid_infos,
                   grid_place, grid_threads, grid_cancel>>

LevelsNext == calculate_grid_levels_call

SpecLevels == Init /\ [][LevelsNext]_vars

\* the start operations of the TWAP and Grid managers, called in any order,
\* before any worker thread is scheduled
StartNext ==
    \/ TwapTick
    \/ GridTick
    \/ place_twap_order_invalid
    \/ place_twap_order_unreachable
    \/ \E r \in TwapSlots : place_twap_order(r)
    \/ place_grid_orders_log_raises
    \/ place_grid_orders_invalid
    \/ place_grid_orders_preflight_fails
    \/ \E r \in GridSlots : place_grid_orders(r)
    \/ \E r \in GridSlots : place_initial_grid_orders(r)
    \/ \E r \in GridSlots : place_grid_orders_return(r)

SpecStart == InitAnyLogger /\ [][StartNext]_vars

\* ================================================================= claims
TwapThreadsBound == {t \in DOMAIN twap_threads : twap_threads[t].info # "unbound"}

TwapInfoOf(t) == twap_infos[twap_threads[t].info]

RunStatuses == {"ACTIVE", "COMPLETED", "CANCELLED", "FAILED"}

\* C1: a TWAP run whose worker saw the stop flag set at a loop boundary,
\* before it had gone through every chunk, does not end COMPLETED.
C1_StoppedRunNotCompleted ==
    \A t \in TwapThreadsBound :
        (twap_threads[t].observed_stop /\ twap_threads[t].pc \in {"display", "done"})
            => TwapInfoOf(t).status # "COMPLETED"

\* C2: the status of a TWAP or Grid run that has left ACTIVE never changes again.
C2_StatusMonotonic ==
    [][ /\ \A r \in DOMAIN twap_infos :
              twap_infos[r].status # "ACTIVE" => twap_infos'[r].status = twap_infos[r].status
        /\ \A r \in DOMAIN grid_infos :
              grid_infos[r].status # "ACTIVE" => grid_infos'[r].status = grid_infos[r].status
      ]_vars

\* C3: the status of every registered TWAP or Grid run is one of ACTIVE,
\* COMPLETED, CANCELLED, FAILED.
C3_StatusInEnum ==
    /\ \A r \in DOMAIN twap_infos : twap_infos[r].status \in RunStatuses
    /\ \A r \in DOMAIN grid_infos : grid_infos[r].status \in RunStatuses

\* C4: once a cancel_all_grid_orders call on a Grid run has returned, the
\* run's status is CANCELLED, in that state and in every later one.
C4_CancelledStays ==
    \A r \in DOMAIN grid_infos :
        grid_infos[r].cancel_all_returned => grid_infos[r].status = "CANCELLED"

OcoIsCancel(c) == c.method = "cancel_order"

OcoCancelCalls == SelectSeq(oco.calls, OcoIsCancel)

OcoTakeProfitPlaced ==
    \E i \in DOMAIN oco.calls :
        /\ oco.calls[i].method = "place_order"
        /\ oco.calls[i].order.type = "LIMIT"
        /\ ~oco.calls[i].raised

OcoStopLossRaised ==
    \E i \in DOMAIN oco.calls :
        /\ oco.calls[i].method = "place_order"
        /\ oco.calls[i].order.type = "STOP"
        /\ oco.calls[i].raised

OcoFinished == oco.pc = "idle" /\ oco.outcome # "none"

\* C5: when the take-profit placement succeeded and the stop-loss placement
\* raised, the finished call has issued exactly one cancel_order, for the
\* take-profit order's id, and has raised the stop-loss placement error,
\* whether that cancel succeeded or not.
C5_OcoRollback ==
    (OcoFinished /\ OcoTakeProfitPlaced /\ OcoStopLossRaised) =>
        /\ Len(OcoCancelCalls) = 1
        /\ OcoCancelCalls[1].orderId = oco.orders[1].order.orderId
        /\ oco.orders[1].type = "TAKE_PROFIT"
        /\ oco.outcome = "StopLossError"

\* C5 witness: a rollback whose cancel raised has finished
C5_Witness ==
    /\ OcoFinished /\ OcoTakeProfitPlaced /\ OcoStopLossRaised
    /\ oco.calls[Len(oco.calls)].method = "cancel_order"
    /\ oco.calls[Len(oco.calls)].raised

\* C6: a well-formed SELL-side request with take_profit_price above
\* stop_loss_price (such as SELL 52000 / 48000 with no stop limit price) is
\* not rejected by validation.
C6_SellAboveAccepted ==
    ( /\ oco.outcome # "none"
      /\ oco.given \in OcoWellFormed
      /\ oco.req.side = "SELL"
      /\ oco.req.take_profit_price > oco.req.stop_loss_price )
        => oco.outcome # "ValueError"

OcoRejected == oco.pc = "idle" /\ oco.outcome = "ValueError"

OcoAccepted == oco.pc # "idle" \/ oco.outcome \notin {"none", "ValueError"}

C8_NoCallAfterStopSeen ==
    [][ \A t \in DOMAIN twap_threads :
            twap_threads[t].observed_stop =>
                twap_threads'[t].calls = twap_threads[t].calls ]_vars

\* C8 witness: a worker that had submitted an order saw the stop and finished
C8_Witness ==
    \E t \in TwapThreadsBound :
        /\ twap_threads[t].observed_stop
        /\ twap_threads[t].pc = "done"
        /\ \E i \in DOMAIN twap_threads[t].calls :
               twap_threads[t].calls[i].method = "place_order"

\* C9: every market-order submission of a TWAP worker that raised has a child
\* order record with status FAILED in the run's orders.
C9_FailureRecorded ==
    \A t \in TwapThreadsBound :
        LET failed == {i \in DOMAIN twap_threads[t].calls :
                          /\ twap_threads[t].calls[i].method = "place_order"
                          /\ twap_threads[t].calls[i].raised}
            records == {j \in DOMAIN TwapInfoOf(t).orders :
                          TwapInfoOf(t).orders[j].status = "FAILED"}
        IN  Cardinality(records) = Cardinality(failed)

TwapRaisedCalls(t) ==
    {i \in DOMAIN twap_threads[t].calls : twap_threads[t].calls[i].raised}

\* C10: a chunk whose price fetch or submission raised leaves the run ACTIVE
\* and the loop running: a worker that left the loop without seeing a stop
\* has attempted every chunk index, and sets the status to COMPLETED.
C10_PartialFailureTolerated ==
    \A t \in TwapThreadsBound :
        LET th == twap_threads[t]
            info == TwapInfoOf(t)
        IN  /\ th.pc \in {"loop", "price", "order", "wait", "complete"}
                => info.status = "ACTIVE"
            /\ (th.pc \in {"complete", "display", "done"} /\ ~th.observed_stop)
                => \A k \in 0..(info.num_chunks - 1) :
                       \E i \in DOMAIN th.calls : th.calls[i].chunk = k
            /\ (th.pc = "display" /\ ~th.observed_stop) => info.status = "COMPLETED"

\* C10 witness: a run in which two calls raised has been set to COMPLETED
C10_Witness ==
    \E t \in TwapThreadsBound :
        /\ twap_threads[t].pc = "display"
        /\ ~twap_threads[t].observed_stop
        /\ Cardinality(TwapRaisedCalls(t)) >= 2
        /\ TwapInfoOf(t).status = "COMPLETED"

\* the orders of the run a cancel_all_grid_orders call works on
CancelInfo == grid_infos[grid_cancel.info]

\* C11: when cancel_all_grid_orders is about to return, every order whose
\* cancel_order call raised is identified by an entry of the returned value.
C11_FailuresReturned ==
    grid_cancel.pc = "finish" =>
        LET result == CancelAllResult(grid_cancel.cancelled_orders)
        IN  \A k \in DOMAIN grid_cancel.failed :
                \E f \in DOMAIN result : \E i \in DOMAIN result[f] :
                    result[f][i].orderId = grid_cancel.failed[k]

\* the ids of the orders cancel_all_grid_orders has called cancel_order for
CancelCallIds(c) ==
    {c.cancelled_orders[i].orderId : i \in DOMAIN c.cancelled_orders}
        \cup {c.failed[i] : i \in DOMAIN c.failed}

CancelCallCount(c) == Len(c.cancelled_orders) + Len(c.failed)

\* C12: cancel_all_grid_orders sends a cancel only for an order that is PLACED
\* when visited and skips only orders that are not PLACED; each reply adds
\* exactly one call, for that order: a cancel that returned marks the order
\* CANCELLED, one that raised leaves its status alone and the loops go on; the
\* loops end only when no PLACED order is left ahead; no order is cancelled
\* twice in one call.
C12_CancelBestEffort ==
    [][ /\ (grid_cancel.pc = "visit" /\ grid_cancel'.pc = "cancel") =>
              /\ OrdersOf(CancelInfo, grid_cancel'.side)[grid_cancel'.idx].status = "PLACED"
              /\ grid_infos' = grid_infos
              /\ CancelCallCount(grid_cancel') = CancelCallCount(grid_cancel)
        /\ (grid_cancel'.pc = "finish" /\ grid_cancel.pc # "finish") =>
              /\ grid_cancel.pc = "visit"
              /\ \A i \in DOMAIN CancelInfo.sell_orders :
                     CancelInfo.sell_orders[i].status = "PLACED" =>
                        CancelInfo.sell_orders[i].order.orderId \in CancelCallIds(grid_cancel)
              /\ grid_infos' = grid_infos
        /\ (grid_cancel.pc = "cancel" /\ grid_cancel'.pc # "cancel") =>
              LET side == grid_cancel.side
                  idx == grid_cancel.idx
                  before == OrdersOf(CancelInfo, side)[idx]
                  after == OrdersOf(grid_infos'[grid_cancel.info], side)[idx]
              IN  /\ CancelCallCount(grid_cancel') = CancelCallCount(grid_cancel) + 1
                  /\ before.order.orderId \notin CancelCallIds(grid_cancel)
                  /\ before.order.orderId \in CancelCallIds(grid_cancel')
                  /\ \/ /\ Len(grid_cancel'.cancelled_orders) =
                               Len(grid_cancel.cancelled_orders) + 1
                        /\ after.status = "CANCELLED"
                     \/ /\ Len(grid_cancel'.failed) = Len(grid_cancel.failed) + 1
                        /\ after.status = before.status
                  /\ grid_infos' = [grid_infos EXCEPT ![grid_cancel.info] =
                         SetOrderStatus(CancelInfo, side, idx, after.status)]
      ]_vars

\* C12 witness: the cancel of the buy order raised, the sell order was
\* cancelled after it, and the loops have ended
C12_Witness ==
    /\ grid_cancel.pc = "finish"
    /\ Len(grid_cancel.failed) = 1
    /\ Len(grid_cancel.cancelled_orders) = 1
    /\ CancelInfo.buy_orders[1].status = "PLACED"
    /\ CancelInfo.buy_orders[1].order.orderId = grid_cancel.failed[1]
    /\ CancelInfo.sell_orders[1].status = "CANCELLED"

\* C13: in a run that was not stopped, the quantity the worker uses for the
\* last chunk plus (num_chunks - 1) times chunk_size equals total_quantity,
\* whatever happened to the earlier chunks.
C13_ChunkSizesSumToTotal ==
    \A t \in TwapThreadsBound :
        LET th == twap_threads[t]
            info == TwapInfoOf(t)
        IN  ( /\ ~th.observed_stop
              /\ th.chunk_num = info.num_chunks - 1
              /\ th.pc \in {"price", "order"} )
                => (info.num_chunks - 1) * info.chunk_size + th.chunk_size
                       = info.total_quantity

TwapIsPlace(c) == c.method = "place_order"

TwapPlaceCalls(t) == SelectSeq(twap_threads[t].calls, TwapIsPlace)

\* every market order of the worker was accepted and reported fully executed
\* at the price P
TwapAllFilledAt(t, P) ==
    /\ \A i \in DOMAIN twap_threads[t].calls : ~twap_threads[t].calls[i].raised
    /\ \A j \in DOMAIN TwapInfoOf(t).orders :
          LET o == TwapInfoOf(t).orders[j]
          IN  /\ o.status = "FILLED"
              /\ \A f \in DOMAIN o.fills : o.fills[f].price = P

TwapGateClosed(t, k) ==
    \E i \in DOMAIN twap_threads[t].calls :
        LET c == twap_threads[t].calls[i]
        IN  /\ c.method = "get_symbol_price" /\ c.chunk = k /\ ~c.raised
            /\ \/ (TwapInfoOf(t).side = "BUY" /\ c.price > TwapInfoOf(t).price_limit)
               \/ (TwapInfoOf(t).side = "SELL" /\ c.price < TwapInfoOf(t).price_limit)

\* a get_symbol_price call of chunk k that returned a price within the limit
TwapGateOpen(t, k) ==
    \E i \in DOMAIN twap_threads[t].calls :
        LET c == twap_threads[t].calls[i]
        IN  /\ c.method = "get_symbol_price" /\ c.chunk = k /\ ~c.raised
            /\ ~( \/ (TwapInfoOf(t).side = "BUY" /\ c.price > TwapInfoOf(t).price_limit)
                  \/ (TwapInfoOf(t).side = "SELL" /\ c.price < TwapInfoOf(t).price_limit) )

TwapOrderSent(t, k) ==
    \E i \in DOMAIN twap_threads[t].calls :
        twap_threads[t].calls[i].method = "place_order" /\ twap_threads[t].calls[i].chunk = k

\* the worker is past the submission step of chunk k
TwapPastChunk(t, k) ==
    \/ twap_threads[t].chunk_num > k
    \/ twap_threads[t].chunk_num = k /\ twap_threads[t].pc = "wait"

\* C15: in a run with a price limit, a chunk whose fetched price is above the
\* limit (BUY) or below it (SELL) gets no market order and leaves the run's
\* record unchanged, and the worker goes on to the next index; a chunk whose
\* fetched price equals the limit or is on the other side gets its order.
C15_PriceGate ==
    /\ [](\A t \in TwapThreadsBound : \A k \in 0..(TwapInfoOf(t).num_chunks - 1) :
            TwapInfoOf(t).price_limit # 0 =>
                /\ TwapGateClosed(t, k) => ~TwapOrderSent(t, k)
                /\ (TwapGateOpen(t, k) /\ TwapPastChunk(t, k)) => TwapOrderSent(t, k)
                /\ TwapOrderSent(t, k) => TwapGateOpen(t, k))
    /\ [][ \A t \in TwapThreadsBound :
              (twap_threads[t].pc = "price" /\ twap_threads'[t].pc # "price") =>
                  /\ twap_infos' = twap_infos
                  /\ twap_threads'[t].chunk_num = twap_threads[t].chunk_num
                  /\ twap_threads'[t].pc =
                        IF TwapGateOpen(t, twap_threads[t].chunk_num)' THEN "order" ELSE "wait"
       ]_vars

\* C15 witness: a BUY run with limit 100 skipped a chunk priced 101 and then
\* sent the order of a chunk priced exactly 100
C15_Witness ==
    \E t \in TwapThreadsBound :
        /\ TwapInfoOf(t).side = "BUY" /\ TwapInfoOf(t).price_limit = 100
        /\ TwapGateClosed(t, 0) /\ ~TwapOrderSent(t, 0)
        /\ TwapOrderSent(t, 1)
        /\ \E i \in DOMAIN twap_threads[t].calls :
               LET c == twap_threads[t].calls[i]
               IN  c.method = "get_symbol_price" /\ c.chunk = 1 /\ c.price = 100

\* a place_grid_orders call has ended without registering a run
GridStartRaised == grid_ret.op = "place_grid_orders" /\ "req" \in DOMAIN grid_ret

\* C16: a place_grid_orders call whose request _validate_grid_order rejects
\* raises the invalid-parameters error (ValueError) and has made no exchange
\* client call.
C16_RejectedRaisesInvalid ==
    (GridStartRaised /\ ~GridReqValid(grid_ret.req)) =>
        /\ grid_ret.outcome = "ValueError"
        /\ grid_ret.client_calls = <<>>

TwapRegistry == <<active_twap_orders, twap_stop_flags, twap_infos, twap_threads>>

GridRegistry == <<active_grids, grid_stop_flags, grid_infos, grid_place, grid_threads>>

PreflightOutcomes == {"ConnectionError", "RequestException", "ValueError"}

\* C17: a start call that raises at the connectivity check (TWAP, Grid), at
\* the price fetch or at the price range check (Grid) leaves the registries,
\* stop flags and workers as they were and has placed no order; no run is
\* registered with a current price outside lower_price < price < upper_price.
C17_PreflightRegistersNothing ==
    /\ [](\A r \in DOMAIN grid_infos :
             /\ grid_infos[r].lower_price < grid_infos[r].current_price
             /\ grid_infos[r].current_price < grid_infos[r].upper_price)
    /\ [][ /\ (twap_ret' # twap_ret /\ twap_ret'.outcome = "ConnectionError") =>
                 /\ TwapRegistry' = TwapRegistry
                 /\ twap_ret'.client_calls = <<"test_connectivity">>
           /\ ( /\ grid_ret' # grid_ret
                /\ GridStartRaised'
                /\ GridReqValid(grid_ret'.req)
                /\ grid_ret'.outcome \in PreflightOutcomes ) =>
                 /\ GridRegistry' = GridRegistry
                 /\ \A i \in DOMAIN grid_ret'.client_calls :
                        grid_ret'.client_calls[i] \in {"test_connectivity", "get_symbol_price"}
       ]_vars

\* C17 witness: a valid Grid request met a ticker price equal to its lower
\* price and was refused with nothing registered, and a TWAP start has failed
\* at the connectivity check with nothing registered
C17_Witness ==
    /\ GridStartRaised
    /\ GridReqValid(grid_ret.req)
    /\ grid_ret.outcome = "ValueError"
    /\ grid_ret.client_calls = <<"test_connectivity", "get_symbol_price">>
    /\ grid_infos = <<>> /\ active_grids = <<>> /\ grid_stop_flags = <<>>
    /\ twap_ret.outcome = "ConnectionError"
    /\ twap_infos = <<>> /\ active_twap_orders = <<>> /\ twap_stop_flags = <<>>

\* the level prices of the orders recorded on one side of a run
OrderLevels(orders) == {orders[i].level_price : i \in DOMAIN orders}

\* the levels of the grid of the specification's scenario, by the side of the
\* order _place_initial_grid_orders places at each
ScenarioLevels(side) ==
    LET levels == calculate_grid_levels(45000, 55000, 11)
    IN  {i \in DOMAIN levels : LevelSide(levels[i], 50000) = side}

\* C18: every order submission of the initial placement is a BUY at a level
\* below the current price or a SELL at a level above it; once placement is
\* over, exactly the levels different from the current price have had one
\* submission each; recorded buy orders lie below and sell orders above the
\* current price, at most one order per level; the grid 45000..55000 of 11
\* levels at price 50000 has 5 BUY levels, 5 SELL levels and one pivot.
C18_InitialPlacement ==
    /\ \A r \in DOMAIN grid_place :
          LET info == grid_infos[r]
              calls == grid_place[r].calls
          IN  /\ \A i \in DOMAIN calls :
                    /\ calls[i].side = "BUY" <=> calls[i].price < info.current_price
                    /\ calls[i].side = "SELL" <=> calls[i].price > info.current_price
                    /\ calls[i].price # info.current_price
                    /\ \A j \in DOMAIN calls : calls[j].price = calls[i].price => j = i
              /\ grid_place[r].pc \in {"display", "done"} =>
                    \A k \in DOMAIN info.grid_levels :
                        (\E i \in DOMAIN calls : calls[i].price = info.grid_levels[k])
                            <=> info.grid_levels[k] # info.current_price
              /\ \A i \in DOMAIN info.buy_orders :
                    info.buy_orders[i].level_price < info.current_price
              /\ \A i \in DOMAIN info.sell_orders :
                    info.sell_orders[i].level_price > info.current_price
              /\ Cardinality(OrderLevels(info.buy_orders)) = Len(info.buy_orders)
              /\ Cardinality(OrderLevels(info.sell_orders)) = Len(info.sell_orders)
              /\ OrderLevels(info.buy_orders) \cap OrderLevels(info.sell_orders) = {}
    /\ Cardinality(ScenarioLevels("BUY")) = 5
    /\ Cardinality(ScenarioLevels("SELL")) = 5
    /\ Cardinality(ScenarioLevels("none")) = 1

\* C18 witness: a grid of three levels whose middle level is the current
\* price has been placed with one buy order below and one sell order above
C18_Witness ==
    \E r \in DOMAIN grid_place :
        /\ grid_place[r].pc = "done"
        /\ grid_infos[r].grid_levels[2] = grid_infos[r].current_price
        /\ Len(grid_place[r].calls) = 2
        /\ Len(grid_infos[r].buy_orders) = 1
        /\ Len(grid_infos[r].sell_orders) = 1

\* C19: the levels computed for an accepted range and level count number
\* num_levels, increase strictly by one common step, start at lower_price and
\* end at upper_price.
C19_GridLevels ==
    grid_ret.op = "_calculate_grid_levels" =>
        LET levels == grid_ret.result
            n == grid_ret.num_levels
        IN  /\ Len(levels) = n
            /\ \A i \in 1..(n - 1) :
                  /\ levels[i] < levels[i + 1]
                  /\ levels[i + 1] - levels[i] = levels[2] - levels[1]
            /\ levels[1] = grid_ret.lower_price
            /\ levels[n] = grid_ret.upper_price

\* C20: a level whose placement raises does not end the initial placement:
\* the submissions go through the levels in ascending order, every level that
\* is not the current price has been tried when placement is over, a
\* placement step raises nothing to the caller and leaves the status alone,
\* and the run stays ACTIVE until place_grid_orders returns.
C20_PlacementContained ==
    /\ [](\A r \in DOMAIN grid_place :
            LET info == grid_infos[r]
                calls == grid_place[r].calls
            IN  /\ \A i, j \in DOMAIN calls : i < j => calls[i].price < calls[j].price
                /\ grid_place[r].pc \in {"display", "done"} =>
                      \A k \in DOMAIN info.grid_levels :
                          info.grid_levels[k] # info.current_price =>
                              \E i \in DOMAIN calls : calls[i].price = info.grid_levels[k]
                /\ (grid_place[r].pc \in {"placing", "display"} /\ ~info.cancel_all_returned)
                      => info.status = "ACTIVE")
    /\ [][ \A r \in DOMAIN grid_place :
              (grid_place[r].pc = "placing" /\ grid_place'[r] # grid_place[r]) =>
                  /\ grid_place'[r].pc \in {"placing", "display"}
                  /\ grid_place'[r].level = grid_place[r].level + 1
                  /\ grid_ret' = grid_ret
                  /\ grid_infos'[r].status = grid_infos[r].status
       ]_vars

\* C20 witness: the placement of the lowest level raised, the order of the
\* highest level was placed after it, and place_grid_orders returned the run,
\* still ACTIVE
C20_Witness ==
    \E r \in DOMAIN grid_place :
        /\ grid_place[r].pc = "done"
        /\ grid_ret.op = "place_grid_orders" /\ grid_ret.outcome = "returned"
        /\ grid_place[r].calls[1].raised
        /\ grid_place[r].calls[1].price = grid_infos[r].grid_levels[1]
        /\ Len(grid_infos[r].buy_orders) = 0
        /\ Len(grid_infos[r].sell_orders) = 1
        /\ grid_infos[r].status = "ACTIVE"

GridThreadsBound == {t \in DOMAIN grid_threads : grid_threads[t].info # "unbound"}

GridInfoOf(t) == grid_infos[grid_threads[t].info]

\* the orders of a run on both sides
AllOrders(info) ==
    {info.buy_orders[i] : i \in DOMAIN info.buy_orders}
        \cup {info.sell_orders[i] : i \in DOMAIN info.sell_orders}

FilledIds(info) == {info.filled_orders[i].order.orderId : i \in DOMAIN info.filled_orders}

\* C21: the monitor queries only orders that are PLACED; a query that
\* reported FILLED marks that order FILLED and appends it to filled_orders; a
\* query that reported another status or raised changes nothing; no order is
\* in filled_orders twice, and every entry is an order of the run, of the
\* entry's side.
C21_FillDetection ==
    /\ [](\A r \in DOMAIN grid_infos :
            LET info == grid_infos[r]
            IN  /\ Cardinality(FilledIds(info)) = Len(info.filled_orders)
                /\ \A i \in DOMAIN info.filled_orders :
                      LET f == info.filled_orders[i]
                          side == IF f.type = "BUY" THEN "buy" ELSE "sell"
                      IN  \E j \in DOMAIN OrdersOf(info, side) :
                              /\ OrdersOf(info, side)[j].order.orderId = f.order.orderId
                              /\ OrdersOf(info, side)[j].level_price = f.level_price
                /\ \A o \in AllOrders(info) :
                      o.status = "FILLED" => o.order.orderId \in FilledIds(info))
    /\ [][ \A t \in GridThreadsBound :
              LET th == grid_threads[t]
                  info == GridInfoOf(t)
              IN  /\ (th.pc = "check" /\ grid_threads'[t].pc = "query") =>
                        OrdersOf(info, grid_threads'[t].side)[grid_threads'[t].idx].status
                            = "PLACED"
                  /\ (th.pc = "query" /\ grid_threads'[t].pc # "query") =>
                        LET before == OrdersOf(info, th.side)[th.idx]
                            info2 == grid_infos'[th.info]
                        IN  IF grid_threads'[t].reply = "FILLED"
                            THEN /\ OrdersOf(info2, th.side)[th.idx].status = "FILLED"
                                 /\ Len(info2.filled_orders) = Len(info.filled_orders) + 1
                                 /\ info2.filled_orders[Len(info2.filled_orders)].order.orderId
                                        = before.order.orderId
                                 /\ \A i \in DOMAIN info.filled_orders :
                                        info2.filled_orders[i] = info.filled_orders[i]
                            ELSE info2 = info
       ]_vars

\* C21 witness: in one poll the query of the buy order raised and the sell
\* order was reported FILLED and appended
C21_Witness ==
    \E t \in GridThreadsBound :
        /\ grid_threads[t].tick_raised
        /\ grid_threads[t].reply = "FILLED"
        /\ GridInfoOf(t).buy_orders[1].status = "PLACED"
        /\ GridInfoOf(t).sell_orders[1].status = "FILLED"
        /\ Len(GridInfoOf(t).filled_orders) = 1
        /\ GridInfoOf(t).filled_orders[1].type = "SELL"

\* C22: in every step, under every interleaving of the monitor and
\* cancel_all_grid_orders, an order that is FILLED stays FILLED, and an order
\* that is PLACED stays PLACED or becomes FILLED or CANCELLED.
C22_FilledIsFinal ==
    [][ \A r \in DOMAIN grid_infos : \A side \in {"buy", "sell"} :
          \A i \in DOMAIN OrdersOf(grid_infos[r], side) :
            LET before == OrdersOf(grid_infos[r], side)[i].status
                after == OrdersOf(grid_infos'[r], side)[i].status
            IN  /\ before = "FILLED" => after = "FILLED"
                /\ before = "PLACED" => after \in {"PLACED", "FILLED", "CANCELLED"}
      ]_vars

\* stop_grid has set the stop flag of the run in slot r while the run is ACTIVE
GridStopRequested(r) ==
    /\ r \in DOMAIN grid_infos
    /\ grid_infos[r].status = "ACTIVE"
    /\ DictGet(grid_stop_flags, grid_infos[r].grid_id, FALSE)

\* the run in slot r has left ACTIVE for a status other than COMPLETED
GridEndedNotCompleted(r) ==
    /\ r \in DOMAIN grid_infos
    /\ grid_infos[r].status \notin {"ACTIVE", "COMPLETED"}

\* C23: with or without rebalancing, a Grid run that is ACTIVE when stop_grid
\* sets its stop flag eventually leaves ACTIVE for a status that is not
\* COMPLETED.
C23_StopGridTerminates ==
    \A r \in GridSlots : GridStopRequested(r) ~> GridEndedNotCompleted(r)

\* the same property for the runs that have a monitor thread
C23_StopMonitoredGridTerminates ==
    \A r \in GridSlots :
        (GridStopRequested(r) /\ r \in DOMAIN grid_threads) ~> GridEndedNotCompleted(r)

\* a step in which stop_twap_order returned or wrote a stop flag
TwapStopStep ==
    \/ twap_ret'.op = "stop_twap_order" /\ twap_ret' # twap_ret
    \/ DOMAIN twap_stop_flags' = DOMAIN twap_stop_flags /\ twap_stop_flags' # twap_stop_flags

\* a step in which stop_grid returned or wrote a stop flag
GridStopStep ==
    \/ grid_ret'.op = "stop_grid" /\ grid_ret' # grid_ret
    \/ DOMAIN grid_stop_flags' = DOMAIN grid_stop_flags /\ grid_stop_flags' # grid_stop_flags

\* C24: stop_twap_order and stop_grid return True or False and never raise;
\* they leave every run record (status, orders, totals), the registries and
\* the threads as they are, whatever the status of the run; a flag that is
\* set stays set, so a second stop changes nothing the first one did not.
C24_StopIdempotent ==
    [][ /\ TwapStopStep =>
              /\ twap_ret'.op = "stop_twap_order"
              /\ twap_ret'.outcome \in {"True", "False"}
              /\ twap_infos' = twap_infos
              /\ twap_threads' = twap_threads
              /\ active_twap_orders' = active_twap_orders
              /\ \A id \in DOMAIN twap_stop_flags :
                    twap_stop_flags[id] => twap_stop_flags'[id]
        /\ GridStopStep =>
              /\ grid_ret'.op = "stop_grid"
              /\ grid_ret'.outcome \in {"True", "False"}
              /\ grid_infos' = grid_infos
              /\ grid_threads' = grid_threads
              /\ active_grids' = active_grids
              /\ grid_place' = grid_place
              /\ grid_cancel' = grid_cancel
              /\ \A id \in DOMAIN grid_stop_flags :
                    grid_stop_flags[id] => grid_stop_flags'[id]
      ]_vars

\* C24 witness: stop_grid returned True for a run that cancel_all_grid_orders
\* had already set to CANCELLED, and the run is as the cancel left it
C24_Witness ==
    \E r \in DOMAIN grid_infos :
        /\ grid_ret.op = "stop_grid"
        /\ grid_ret.outcome = "True"
        /\ grid_infos[r].cancel_all_returned
        /\ grid_infos[r].status = "CANCELLED"
        /\ grid_stop_flags[grid_infos[r].grid_id]
        /\ Len(grid_infos[r].sell_orders) = 1
        /\ grid_infos[r].sell_orders[1].status = "CANCELLED"

\* the ways an operation signals that it knows no run with the id it is given
RunNotFoundSignals == {"ValueError", "KeyError", "LookupError", "RunNotFound"}

\* C25: stop_twap_order, get_twap_status, stop_grid, get_grid_status and
\* cancel_all_grid_orders, called with an id that is not in the registry,
\* each end with a run-not-found error, and none of them changes a registry,
\* a stop flag or a run.
C25_UnknownIdRaises ==
    [][ /\ \A twap_id \in TwapIds \ DOMAIN active_twap_orders :
              (stop_twap_order(twap_id) \/ get_twap_status(twap_id)) =>
                  /\ twap_ret'.outcome \in RunNotFoundSignals
                  /\ UNCHANGED <<active_twap_orders, twap_stop_flags, twap_infos>>
        /\ \A grid_id \in GridIds \ DOMAIN active_grids :
              (\/ stop_grid(grid_id)
               \/ get_grid_status(grid_id)
               \/ cancel_all_grid_orders(grid_id)) =>
                  /\ grid_ret'.outcome \in RunNotFoundSignals
                  /\ UNCHANGED <<active_grids, grid_stop_flags, grid_infos>>
      ]_vars

\* the part of C25 that cancel_all_grid_orders meets
C25_CancelUnknownIdRaises ==
    [][ \A grid_id \in GridIds \ DOMAIN active_grids :
            cancel_all_grid_orders(grid_id) =>
                /\ grid_ret'.outcome \in RunNotFoundSignals
                /\ UNCHANGED <<active_grids, grid_stop_flags, grid_infos>>
      ]_vars

\* the part of C25 about state: no operation called with an unknown id
\* changes a registry, a stop flag or a run
C25_UnknownIdChangesNothing ==
    [][ /\ \A twap_id \in TwapIds \ DOMAIN active_twap_orders :
              (stop_twap_order(twap_id) \/ get_twap_status(twap_id)) =>
                  UNCHANGED <<active_twap_orders, twap_stop_flags, twap_infos>>
        /\ \A grid_id \in GridIds \ DOMAIN active_grids :
              (\/ stop_grid(grid_id)
               \/ get_grid_status(grid_id)
               \/ cancel_all_grid_orders(grid_id)) =>
                  UNCHANGED <<active_grids, grid_stop_flags, grid_infos>>
      ]_vars

\* C26: what a caller reads through the value get_twap_status or
\* get_grid_status returned is what the run held when the call returned,
\* whatever a worker, a placement loop or cancel_all_grid_orders has done to
\* the run since.
C26_StatusIsSnapshot ==
    /\ (twap_ret.op = "get_twap_status" /\ twap_ret.result \in DOMAIN twap_infos) =>
            twap_infos[twap_ret.result] = twap_ret.seen
    /\ (grid_ret.op = "get_grid_status" /\ grid_ret.result \in DOMAIN grid_infos) =>
            grid_infos[grid_ret.result] = grid_ret.seen

\* C27: every run that was created has its own registry entry, so no two
\* runs share an id, also when they were started for the same symbol within
\* one clock second; and no step replaces the run an id is registered for or
\* turns a stop flag that is set back to unset.
C27_RunIdsUnique ==
    /\ [](/\ \A r \in DOMAIN twap_infos :
               DictGet(active_twap_orders, twap_infos[r].twap_id, "{}") = r
          /\ \A r \in DOMAIN grid_infos :
               DictGet(active_grids, grid_infos[r].grid_id, "{}") = r)
    /\ [][ /\ \A id \in DOMAIN active_twap_orders :
                /\ active_twap_orders'[id] = active_twap_orders[id]
                /\ twap_stop_flags[id] => twap_stop_flags'[id]
           /\ \A id \in DOMAIN active_grids :
                /\ active_grids'[id] = active_grids[id]
                /\ grid_stop_flags[id] => grid_stop_flags'[id]
       ]_vars

\* C28: every step that changes a run record is a step of the worker thread
\* bound to that run (or, for a Grid run, of the place_grid_orders call that
\* is still filling it in); a call of stop, cancel or status changes no run
\* record.
C28_OwnerWritesOnly ==
    [][ /\ \A r \in DOMAIN twap_infos :
              twap_infos'[r] # twap_infos[r] =>
                  \E t \in DOMAIN twap_threads :
                      /\ twap_threads[t].info = r
                      /\ twap_threads'[t] # twap_threads[t]
        /\ \A r \in DOMAIN grid_infos :
              grid_infos'[r] # grid_infos[r] =>
                  \/ \E t \in DOMAIN grid_threads :
                         /\ grid_threads[t].info = r
                         /\ grid_threads'[t] # grid_threads[t]
                  \/ grid_place'[r] # grid_place[r]
      ]_vars

\* the part of C28 that holds: stop_twap_order and stop_grid write no run
\* record, and every write to a TWAP run record is a step of its worker
C28_TwapOwnerWritesOnly ==
    [][ \A r \in DOMAIN twap_infos :
            twap_infos'[r] # twap_infos[r] =>
                \E t \in DOMAIN twap_threads :
                    /\ twap_threads[t].info = r
                    /\ twap_threads'[t] # twap_threads[t]
      ]_vars

TerminalStatuses == {"COMPLETED", "CANCELLED", "FAILED"}

\* C29: a TWAP or Grid run whose status is terminal has an end_time, and a
\* run that is ACTIVE has none.
C29_EndTimeOnTerminal ==
    /\ \A r \in DOMAIN twap_infos :
          /\ twap_infos[r].status \in TerminalStatuses => twap_infos[r].has_end_time
          /\ twap_infos[r].status = "ACTIVE" => ~twap_infos[r].has_end_time
    /\ \A r \in DOMAIN grid_infos :
          /\ grid_infos[r].status \in TerminalStatuses => grid_infos[r].has_end_time
          /\ grid_infos[r].status = "ACTIVE" => ~grid_infos[r].has_end_time

\* the part of C29 that holds: a run that is ACTIVE has no end_time, and a
\* TWAP run whose status is terminal has one (the worker sets FAILED only
\* after COMPLETED and end_time, when the completion summary raises)
C29_TwapEndTimeOnTerminal ==
    /\ \A r \in DOMAIN twap_infos :
          /\ twap_infos[r].status \in TerminalStatuses => twap_infos[r].has_end_time
          /\ twap_infos[r].status = "ACTIVE" => ~twap_infos[r].has_end_time
    /\ \A r \in DOMAIN grid_infos :
          grid_infos[r].status = "ACTIVE" => ~grid_infos[r].has_end_time

OcoIsPlace(c) == c.method = "place_order"

OcoPlaceCalls == SelectSeq(oco.calls, OcoIsPlace)

\* the side opposite to the one the caller gave
OcoOppositeOfGiven == IF Normalize(oco.given.side) = "BUY" THEN "SELL" ELSE "BUY"

\* the limit price of the stop leg for the request the caller gave
OcoGivenStopLimit ==
    IF oco.given.stop_limit_price = None
    THEN oco.given.stop_loss_price
    ELSE oco.given.stop_limit_price

\* C30: place_oco_order sends the take-profit leg first, a LIMIT order at
\* take_profit_price, and the stop leg second, a STOP order triggered at
\* stop_loss_price with limit price stop_limit_price (stop_loss_price when none
\* was given), both for the full quantity on the side opposite to the given
\* one; a call that returned has sent exactly these two orders and no cancel,
\* and its result lists two orders, TAKE_PROFIT and then STOP_LOSS.
C30_OcoOrderAndShape ==
    /\ Len(OcoPlaceCalls) <= 2
    /\ Len(OcoPlaceCalls) >= 1 =>
          OcoPlaceCalls[1].order =
              [side |-> OcoOppositeOfGiven, type |-> "LIMIT",
               quantity |-> oco.given.quantity,
               price |-> oco.given.take_profit_price, stopPrice |-> 0]
    /\ Len(OcoPlaceCalls) = 2 =>
          /\ ~OcoPlaceCalls[1].raised
          /\ OcoPlaceCalls[2].order =
                [side |-> OcoOppositeOfGiven, type |-> "STOP",
                 quantity |-> oco.given.quantity,
                 price |-> OcoGivenStopLimit,
                 stopPrice |-> oco.given.stop_loss_price]
    /\ oco.outcome = "returned" =>
          /\ Len(OcoPlaceCalls) = 2
          /\ ~OcoPlaceCalls[2].raised
          /\ Len(OcoCancelCalls) = 0
          /\ Len(oco.orders) = 2
          /\ oco.orders[1].type = "TAKE_PROFIT"
          /\ oco.orders[1].order.orderId = OcoPlaceCalls[1].orderId
          /\ oco.orders[2].type = "STOP_LOSS"
          /\ oco.orders[2].order.orderId = OcoPlaceCalls[2].orderId

\* C30 witness: a returned BUY request with a stop limit price of its own
C30_Witness ==
    /\ oco.outcome = "returned"
    /\ oco.given.side = "buy"
    /\ oco.given.stop_limit_price = 47500
    /\ OcoPlaceCalls[2].order.price = 47500
    /\ OcoPlaceCalls[2].order.stopPrice = oco.given.stop_loss_price
    /\ OcoPlaceCalls[2].order.side = "SELL"

\* a returned request without a stop limit price: the stop leg's limit price
\* is the stop loss price
C30_WitnessDefaultLimit ==
    /\ oco.outcome = "returned"
    /\ oco.given.stop_limit_price = None
    /\ OcoPlaceCalls[2].order.price = oco.given.stop_loss_price

\* the market orders a worker whose stop flag is set may still submit before it
\* is back at the stop check: one when it is past the check of the current
\* chunk, none otherwise
TwapOrdersLeftAfterStop(pc) == IF pc \in {"price", "order"} THEN 1 ELSE 0

\* the inter-chunk waits such a worker may still perform
TwapWaitsLeftAfterStop(pc) == IF pc \in {"price", "order", "wait"} THEN 1 ELSE 0

TwapStopFlagSet(t) == DictGet(twap_stop_flags, twap_threads[t].twap_id, FALSE)

TwapOutOfLoop(t) == twap_threads[t].pc \in {"complete", "display", "done"}

RECURSIVE TwapAcceptedQuantity(_)
TwapAcceptedQuantity(calls) ==
    IF calls = <<>> THEN 0
    ELSE (IF Head(calls).method = "place_order" /\ ~Head(calls).raised
          THEN Head(calls).quantity ELSE 0)
         + TwapAcceptedQuantity(Tail(calls))

\* C32: the quantities of the market orders of a TWAP worker that the
\* exchange accepted add up to at most total_quantity, when every accepted
\* order reports an executedQty between 0 and its quantity.
C32_NeverOrdersMoreThanTotal ==
    \A t \in TwapThreadsBound :
        TwapAcceptedQuantity(twap_threads[t].calls) <= TwapInfoOf(t).total_quantity

\* C33: no exchange order is submitted for a run whose status is terminal: a
\* TWAP worker makes no call after its run is COMPLETED or FAILED, and the
\* placement loop of place_grid_orders submits nothing once
\* cancel_all_grid_orders has set the run to CANCELLED.
C33_NoOrderForTerminalRun ==
    [][ /\ \A t \in TwapThreadsBound :
              TwapInfoOf(t).status \in TerminalStatuses =>
                  twap_threads'[t].calls = twap_threads[t].calls
        /\ \A r \in DOMAIN grid_infos :
              grid_infos[r].status \in TerminalStatuses =>
                  grid_place'[r].calls = grid_place[r].calls
      ]_vars

\* the part of C33 about TWAP, which holds
C33_TwapNoOrderForTerminalRun ==
    [][ \A t \in TwapThreadsBound :
            TwapInfoOf(t).status \in TerminalStatuses =>
                twap_threads'[t].calls = twap_threads[t].calls
      ]_vars

\* C34: the wait of the monitor after a poll in which a get_order query
\* raised is the 30-second back-off, and the wait after a poll in which no
\* query raised is 10 seconds.
C34_ErrorBackoff ==
    [][ \A t \in GridThreadsBound :
            (grid_threads[t].pc = "sleep" /\ grid_threads'[t].pc # "sleep") =>
                grid_threads'[t].last_sleep =
                    IF grid_threads[t].tick_raised THEN 30 ELSE 10
      ]_vars

\* the part of C34 that holds: after a poll without a raised query the
\* monitor waits 10 seconds
C34_QuietPollWaitsTen ==
    [][ \A t \in GridThreadsBound :
            (/\ grid_threads[t].pc = "sleep"
             /\ grid_threads'[t].pc # "sleep"
             /\ ~grid_threads[t].tick_raised) =>
                grid_threads'[t].last_sleep = 10
      ]_vars

\* the exchange order ids of a sequence of child orders, in order
OrderIdsOf(orders) == [i \in DOMAIN orders |-> orders[i].order.orderId]

GridStartReturned(r) == r \in DOMAIN grid_place /\ grid_place[r].pc = "done"

\* C35: once place_grid_orders has returned, no step adds a child order to
\* the run or submits an order for it: buy_orders and sell_orders keep
\* their orders, filled_orders only records orders that are among them, and
\* the order submissions of the run stay as they were; the monitor changes
\* the run only in a reply to a status query.
C35_MonitorDetectsOnly ==
    [][ \A r \in DOMAIN grid_infos :
            GridStartReturned(r) =>
                /\ OrderIdsOf(grid_infos'[r].buy_orders) = OrderIdsOf(grid_infos[r].buy_orders)
                /\ OrderIdsOf(grid_infos'[r].sell_orders) = OrderIdsOf(grid_infos[r].sell_orders)
                /\ grid_place'[r].calls = grid_place[r].calls
                /\ FilledIds(grid_infos'[r])
                      \subseteq {o.order.orderId : o \in AllOrders(grid_infos[r])}
                /\ \A t \in GridThreadsBound :
                      (/\ grid_threads[t].info = r
                       /\ grid_threads'[t] # grid_threads[t]
                       /\ grid_infos'[r] # grid_infos[r]) =>
                          \/ grid_threads[t].pc = "query"
                          \/ grid_threads[t].pc = "exit"
      ]_vars

\* C35 witness: the monitor detected the fill of the sell order, went
\* through the rebalance step and the wait, and is polling again; the run has
\* the two orders it was started with
C35_Witness ==
    \E t \in GridThreadsBound :
        /\ GridInfoOf(t).rebalance
        /\ Len(GridInfoOf(t).filled_orders) = 1
        /\ grid_threads[t].last_sleep = 10
        /\ grid_threads[t].pc = "check"
        /\ Len(GridInfoOf(t).buy_orders) = 1
        /\ Len(GridInfoOf(t).sell_orders) = 1
        /\ GridInfoOf(t).sell_orders[1].status = "FILLED"

\* ------------------------------------------------------------------ C36
\* the second run's worker has left _execute_twap with a terminal status
SecondRunEnded ==
    /\ twap_threads["t2"].pc = "done"
    /\ twap_infos["t2"].status \in TerminalStatuses

\* the first run's worker is inside place_order, which has not returned
FirstRunInsideCall ==
    /\ twap_threads["t1"].pc = "order"
    /\ twap_threads["t1"].calls = <<>>

OrderStatusesOf(info) ==
    <<[i \in DOMAIN info.buy_orders |-> info.buy_orders[i].status],
      [i \in DOMAIN info.sell_orders |-> info.sell_orders[i].status]>>

\* a step that wrote another value over the stop flag of grid_id
GridFlagWritten(grid_id) ==
    /\ grid_id \in DOMAIN grid_stop_flags
    /\ grid_id \in DOMAIN grid_stop_flags'
    /\ grid_stop_flags'[grid_id] # grid_stop_flags[grid_id]

\* a step in which an order of the run in slot r became CANCELLED
GridOrderCancelled(r) ==
    /\ r \in DOMAIN grid_infos'
    /\ \E o \in AllOrders(grid_infos'[r]) :
           o.status = "CANCELLED" /\ o \notin AllOrders(grid_infos[r])

\* C37: stop_grid only requests cancellation.  A step that writes a stop
\* flag sets that one flag and changes nothing else of the Grid manager - no
\* run record, no child order status, no order submission, no cancel call, no
\* thread; so does every step in which stop_grid returns.  The monitor that
\* exits on the flag leaves the child orders as they are.  An order becomes
\* CANCELLED only in the reply to a cancel_order call of
\* cancel_all_grid_orders.
C37_StopGridOnlyRequests ==
    [][ /\ \A grid_id \in GridIds :
               GridFlagWritten(grid_id) =>
                   /\ grid_stop_flags'[grid_id] = TRUE
                   /\ \A other \in DOMAIN grid_stop_flags \ {grid_id} :
                          grid_stop_flags'[other] = grid_stop_flags[other]
                   /\ UNCHANGED <<active_grids, grid_infos, grid_place, grid_threads,
                                  grid_cancel>>
        /\ (grid_ret'.op = "stop_grid" /\ grid_ret' # grid_ret) =>
               UNCHANGED <<active_grids, grid_infos, grid_place, grid_threads, grid_cancel>>
        /\ \A t \in DOMAIN grid_threads :
               (grid_threads[t].pc # "done" /\ grid_threads'[t].pc = "done") =>
                   /\ OrderStatusesOf(GridInfoOf(t)') = OrderStatusesOf(GridInfoOf(t))
                   /\ grid_cancel' = grid_cancel
        /\ \A r \in DOMAIN grid_infos :
               GridOrderCancelled(r) =>
                   /\ grid_cancel.pc = "cancel"
                   /\ grid_cancel.info = r
                   /\ Len(grid_cancel'.cancelled_orders) =
                          Len(grid_cancel.cancelled_orders) + 1
      ]_vars

\* stop_grid returned True, the monitor has exited on the flag, no cancel
\* call was made and an order of the run is still PLACED
C37_Witness ==
    /\ grid_ret.op = "stop_grid"
    /\ grid_ret.outcome = "True"
    /\ grid_cancel = IdleCancel
    /\ \E t \in GridThreadsBound :
           /\ grid_threads[t].pc = "done"
           /\ DictGet(grid_stop_flags, grid_threads[t].grid_id, FALSE)
           /\ GridInfoOf(t).status = "STOPPED"
           /\ \E o \in AllOrders(GridInfoOf(t)) : o.status = "PLACED"

\* ------------------------------------------------------------------ C38
\* the worker in slot t has left _execute_twap and its run has a terminal status
TwapWorkerEnded(t) ==
    /\ t \in DOMAIN twap_threads
    /\ twap_threads[t].pc = "done"
    /\ TwapInfoOf(t).status \in TerminalStatuses

\* C38: every TWAP worker that was started ends.  With every exchange call
\* and every wait returning or raising, the worker reaches the end of
\* _execute_twap with a terminal status on its run, whether or not a stop was
\* requested; on the way it submits at most num_chunks orders and waits at
\* most num_chunks - 1 times.
C38_TwapTerminates ==
    /\ [](\A t \in DOMAIN twap_threads :
              /\ Len(TwapPlaceCalls(t)) <= twap_infos[t].num_chunks
              /\ twap_threads[t].waits <= twap_infos[t].num_chunks - 1
              /\ twap_threads[t].pc = "done" =>
                     twap_infos[t].status \in TerminalStatuses)
    /\ \A t \in TwapSlots : (t \in DOMAIN twap_threads) ~> TwapWorkerEnded(t)

\* a worker that ended without a stop request after num_chunks submissions
\* and num_chunks - 1 waits
C38_Witness ==
    \E t \in DOMAIN twap_threads :
        /\ TwapWorkerEnded(t)
        /\ ~TwapStopFlagSet(t)
        /\ TwapInfoOf(t).num_chunks = 3
        /\ Len(TwapPlaceCalls(t)) = 3
        /\ twap_threads[t].waits = 2

\* a worker that ended after a stop request with fewer submissions
C38_WitnessStopped ==
    \E t \in DOMAIN twap_threads :
        /\ TwapWorkerEnded(t)
        /\ twap_threads[t].observed_stop
        /\ Len(TwapPlaceCalls(t)) = 1

\* ------------------------------------------------------------------ C39
\* C39: with an exchange that never reports more executed than was ordered,
\* every TWAP run record has, in every reachable state, an executed quantity
\* between 0 and the total quantity, and a count of executed chunks that is
\* the number of recorded child orders and at most the number of chunks.
C39_TwapRecordInvariant ==
    \A r \in DOMAIN twap_infos :
        /\ 0 <= twap_infos[r].executed_quantity
        /\ twap_infos[r].executed_quantity <= twap_infos[r].total_quantity
        /\ twap_infos[r].executed_chunks = Len(twap_infos[r].orders)
        /\ twap_infos[r].executed_chunks <= twap_infos[r].num_chunks

\* a run that recorded a partly executed chunk and lost one chunk to a
\* submission that raised: two recorded orders for three chunks, with less
\* than the total executed
C39_Witness ==
    \E t \in DOMAIN twap_threads :
        /\ twap_threads[t].pc = "done"
        /\ TwapInfoOf(t).num_chunks = 3
        /\ TwapInfoOf(t).executed_chunks = 2
        /\ Len(TwapInfoOf(t).orders) = 2
        /\ \E i \in 1..2 : TwapInfoOf(t).orders[i].status = "PARTIALLY_FILLED"
        /\ TwapInfoOf(t).executed_quantity > 0
        /\ TwapInfoOf(t).executed_quantity < TwapInfoOf(t).total_quantity
        /\ \E i \in DOMAIN twap_threads[t].calls : twap_threads[t].calls[i].raised

\* a run that executed every chunk in full: the executed quantity is the total
C39_WitnessFull ==
    \E t \in DOMAIN twap_threads :
        /\ twap_threads[t].pc = "done"
        /\ TwapInfoOf(t).executed_chunks = TwapInfoOf(t).num_chunks
        /\ TwapInfoOf(t).executed_quantity = TwapInfoOf(t).total_quantity

\* ------------------------------------------------------------------ C40
\* the take-profit place_order of the current call raised
OcoTakeProfitRaised ==
    \E i \in DOMAIN oco.calls :
        /\ oco.calls[i].method = "place_order"
        /\ oco.calls[i].order.type = "LIMIT"
        /\ oco.calls[i].raised

\* C40: a place_oco_order whose connectivity check failed has placed no
\* order and ends with the connection error; one whose take-profit
\* place_order raised has made that one place_order call and no call after
\* it - no stop-loss order, no cancel_order - has recorded no order, and
\* ends with the take-profit placement error.
C40_OcoFirstLegFails ==
    /\ oco.outcome = "ConnectionError" =>
           /\ oco.pc = "idle"
           /\ oco.calls = <<ClientCall("test_connectivity", NoOrder, 0, TRUE)>>
           /\ oco.orders = <<>>
    /\ OcoTakeProfitRaised =>
           /\ oco.pc = "idle"
           /\ oco.outcome = "TakeProfitError"
           /\ Len(OcoPlaceCalls) = 1
           /\ OcoPlaceCalls[1] = oco.calls[Len(oco.calls)]
           /\ OcoCancelCalls = <<>>
           /\ oco.orders = <<>>
    /\ oco.outcome = "TakeProfitError" => OcoTakeProfitRaised

\* a call that ended with the take-profit placement error after the
\* connectivity check, the price query and the one place_order
C40_Witness ==
    /\ OcoFinished
    /\ OcoTakeProfitRaised
    /\ oco.outcome = "TakeProfitError"
    /\ Len(oco.calls) = 3

\* a call that ended with the connection error
C40_WitnessUnreachable ==
    /\ OcoFinished
    /\ oco.outcome = "ConnectionError"
    /\ Len(oco.calls) = 1

====
